---- MODULE Spec2Model ----
(***************************************************************************)
(* Capture-and-ingestion pipeline of the Datacollector repository:         *)
(* one acquisition thread per camera (CameraStream._update) writing a      *)
(* lock-guarded single-slot mailbox, and one collector thread              *)
(* (DataCollector.run) that snapshots the mailboxes, throttles, gates,     *)
(* calls the detector and saves samples through DatasetWriter.             *)
(***************************************************************************)
EXTENDS Integers, Sequences, FiniteSets, TLC

\* ------------------------------------------------------------------ bounds
MaxPixel == 2          \* distinct frame contents a source can deliver
MaxTime == 2           \* last value the model lets time.time() reach
MaxRows == 1           \* samples the detector lets the collector try to save
MaxDet == 1            \* detections in one inference result
MaxSamples == 2        \* the same, where the store and the detector are healthy
MaxUuid == 2           \* distinct 8-character uuid prefixes
MaxCalls == 2          \* direct save_sample calls, all callers together
MaxInits == 2          \* DatasetWriter objects constructed over one base path
MaxSide == 6           \* width and height of a mask, in pixels
MaxBlobs == 2          \* separate regions of set pixels in a mask
MaxPoints == 2         \* points of a polygon handed to format_yolo_label
MaxPolys == 2          \* polygons handed to format_yolo_label
MaxNames == 2          \* names in a class list
MaxStarts == 3         \* acquisition tasks made for one camera

\* --------------------------------------------------------- configuration
Cams == {"c1", "c2"}
CamOrder == <<"c1", "c2">>
NCams == Len(CamOrder)
ReconnectInterval == 5
CaptureInterval == 1
StartTime == CaptureInterval
MinConfidence == 60
ClassNames == <<"person", "helmet">>
TargetClasses == {"person"}

Pixels == 1..MaxPixel
\* A frame is an array object: `by` names the statement that allocated it
\* (two references to the same array carry the same allocation), px its pixels.
NoFrame == [by |-> "none", px |-> 0]
\* an all-black frame handed to the API by a caller
Black == [by |-> "caller", px |-> 0]
\* MotionDetector.prev_frame = None
NoRef == -1
\* no check_motion call on record
NoGate == [cam |-> "none", px |-> NoRef, ans |-> FALSE]
ClassIds == 0..2
Scores == {50, 95}
Detections == [cls : ClassIds, score : Scores, npoly : 0..1]

VARIABLES
    \* configuration, fixed at construction
    url,                \* camera_config['url'] per camera: "rtsp" | "test"
    motion_enabled,     \* motion_detection.enabled
    platform,           \* the package that runs: "jetson" | "rpi"
    save_empty,         \* storage.save_empty
    \* CameraStream fields, one per camera
    running,            \* self.running
    thread,             \* self.thread: "none" | "alive" | "exited"
    lock,               \* self.lock: "free" | "acq" | "col"
    latest_frame,       \* self.latest_frame (the mailbox)
    connected,          \* self.connected
    reconnect_interval, \* self.reconnect_interval
    prev_frame,         \* self.motion_detector.prev_frame (NoRef: None)
    \* locals of CameraStream._update, one per camera
    acqpc,              \* position of the acquisition thread
    cap,                \* local cap: "none" | "closed" | "open"
    frame,              \* local frame
    handles,            \* capture handles of the source currently open
    wait,               \* argument of the reconnect sleep in progress (0: none)
    \* DataCollector fields and locals of run()
    pc,                 \* position of the collector thread
    col_running,        \* DataCollector.running (the shutdown flag, inverted)
    idx,                \* cursor of the loop over the cameras in progress
    ret,                \* value get_frame() is about to return
    frames,             \* frames dict returned by get_frames()
    current_time,       \* current_time
    last_capture_times, \* self.last_capture_times (0: no entry)
    yolo_annotations,   \* yolo_annotations of the camera being processed
    classes_detected,   \* classes_detected of the camera being processed
    raised,             \* what raised the exception run() caught ("": nothing)
    gate,               \* the last check_motion call: camera, frame, answer
    results,            \* results of infer() for the camera being processed
    \* collaborators
    now,                \* time.time()
    det_running,        \* InferenceEngine.running
    det_stopped,        \* InferenceEngine.stop() has been called
    stopped,            \* CameraStream.stop() has returned, per camera
    images,             \* image files on disk
    labels,             \* label files on disk
    catalog,            \* rows of the frames table, in insertion order
    budget,             \* non-empty results the detector will still return
    last_save,          \* outcome of the last save_sample call
    \* threads that call DatasetWriter.save_sample directly, one per camera id
    wpc,                \* position of each caller inside save_sample
    wcall,              \* arguments and locals of each caller's call
    inits,              \* DatasetWriter objects constructed over the base path
    dirs,               \* the directories that exist under the base path
    mask,               \* the binary mask handed to mask_to_polygon
    contours,           \* what cv2.findContours returned for it
    polygons,           \* mask_to_polygon's return value
    label_class,        \* the class id handed to format_yolo_label
    label_lines,        \* format_yolo_label's return value
    class_names,        \* self.class_names: a list or a dict of names
    cls_id,             \* the class id being resolved
    class_name,         \* the name it resolved to ("": not resolved yet)
    tasks,              \* per camera, the acquisition tasks that are alive
    handle,             \* per camera, self.thread: the task made last (0: None)
    ctl                 \* the control thread: its last call of start() or stop()

camvars == <<running, thread, lock, latest_frame, connected,
             reconnect_interval, acqpc, cap, frame, handles, wait>>
colvars == <<pc, col_running, idx, ret, frames, current_time,
             last_capture_times, yolo_annotations, classes_detected, raised,
             prev_frame, gate, results>>
envvars == <<now, det_running, det_stopped, stopped, url, motion_enabled, platform, save_empty>>
resolvevars == <<class_names, cls_id, class_name>>
apivars == <<tasks, handle, ctl>>
utilvars == <<mask, contours, polygons, label_class, label_lines, resolvevars, apivars>>
writervars == <<wpc, wcall, inits, dirs, utilvars>>
storevars == <<images, labels, catalog, last_save, budget, writervars>>
vars == <<camvars, colvars, envvars, storevars>>

\* the directory path and the directories above it, the base path (<<>>) included
Makedirs(path) == {SubSeq(path, 1, n) : n \in 0..Len(path)}

\* ensure_directories(base_path, subdirs) over the directories existing:
\* os.makedirs(..., exist_ok=True) for the base path and each subdirectory
EnsureDirectories(existing, subdirs) ==
    existing \cup {<<>>} \cup UNION {Makedirs(d) : d \in subdirs}

\* images/train, images/val, labels/train, labels/val
SplitDirs == {<<kind, split>> : kind \in {"images", "labels"}, split \in {"train", "val"}}

\* the class map that is the list names: index -> name, indices from 0
ListMap(names) ==
    [kind |-> "list", names |-> [i \in 0..(Len(names) - 1) |-> names[i + 1]]]

\* the control thread has called neither start() nor stop()
NoApi == [op |-> "none", cam |-> "none", made |-> FALSE]

\* a 1 x 1 mask with no pixel set
NoMask == [w |-> 1, h |-> 1, blobs |-> {}]

\* the value of polygons before mask_to_polygon has returned
NotCalled == << << [num |-> -1, den |-> 1] >> >>

\* the value of lines before format_yolo_label has returned
NoLines == << <<-1>> >>

NoSave == [img |-> "none", lbl |-> "none", inserted |-> FALSE, signal |-> "none"]
\* a caller that has not called save_sample yet
NoCall == [annotations |-> <<>>, px |-> 0, timestamp |-> 0, uuid |-> 0,
           split |-> "none", res |-> "none", clash |-> "none", calls |-> 0]

\* ------------------------------------------------------------ frame arrays
\* numpy.ndarray.copy() executed by statement `by`: a new array, same pixels
Copy(f, by) == [by |-> by, px |-> f.px]

\* the state after DataCollector.__init__ of package p for camera urls u,
\* motion detection setting m, save_empty setting e and a detector that
\* returns b non-empty results
InitConfig(p, u, m, b, e) ==
    /\ platform = p
    /\ url = u
    /\ motion_enabled = m
    /\ save_empty = e
    /\ budget = b
    /\ gate = NoGate
    /\ results = <<>>
    /\ wpc = [c \in Cams |-> "idle"]
    /\ wcall = [c \in Cams |-> NoCall]
    /\ inits = 1
    /\ dirs = EnsureDirectories({}, SplitDirs)
    /\ mask = NoMask
    /\ contours = <<>>
    /\ polygons = NotCalled
    /\ label_class = 0
    /\ label_lines = NoLines
    /\ class_names = ListMap(ClassNames)
    /\ cls_id = 0
    /\ class_name = ""
    /\ tasks = [c \in Cams |-> {}]
    /\ handle = [c \in Cams |-> 0]
    /\ ctl = NoApi
    /\ running = [c \in Cams |-> FALSE]
    /\ thread = [c \in Cams |-> "none"]
    /\ lock = [c \in Cams |-> "free"]
    /\ latest_frame = [c \in Cams |-> NoFrame]
    /\ connected = [c \in Cams |-> FALSE]
    /\ reconnect_interval = [c \in Cams |-> ReconnectInterval]
    /\ prev_frame = [c \in Cams |-> NoRef]
    /\ acqpc = [c \in Cams |-> "idle"]
    /\ cap = [c \in Cams |-> "none"]
    /\ frame = [c \in Cams |-> NoFrame]
    /\ handles = [c \in Cams |-> 0]
    /\ wait = [c \in Cams |-> 0]
    /\ pc = "start_all"
    /\ col_running = TRUE
    /\ idx = 1
    /\ ret = NoFrame
    /\ frames = [c \in Cams |-> NoFrame]
    /\ current_time = 0
    /\ last_capture_times = [c \in Cams |-> 0]
    /\ yolo_annotations = <<>>
    /\ classes_detected = <<>>
    /\ raised = ""
    /\ now = StartTime
    /\ det_running = FALSE
    /\ det_stopped = FALSE
    /\ stopped = [c \in Cams |-> FALSE]
    /\ images = {}
    /\ labels = {}
    /\ catalog = <<>>
    /\ last_save = NoSave

\* the Jetson collector with save_empty left at its default
InitWith(u, m, b) == InitConfig("jetson", u, m, b, FALSE)

Init == \E p \in {"jetson", "rpi"}, u \in [Cams -> {"rtsp", "test"}],
           m \in BOOLEAN, b \in 0..MaxRows, e \in BOOLEAN :
            InitConfig(p, u, m, b, e)

\* ------------------------------------------- CameraStream._update, real source
\* cap = cv2.VideoCapture(url_to_open), the first attempt
OpenFirst(c) ==
    /\ acqpc[c] = "open0"
    /\ \E ok \in BOOLEAN :
         /\ cap' = [cap EXCEPT ![c] = IF ok THEN "open" ELSE "closed"]
         /\ handles' = [handles EXCEPT ![c] = IF ok THEN @ + 1 ELSE @]
    /\ acqpc' = [acqpc EXCEPT ![c] = "loop"]
    /\ UNCHANGED <<running, thread, lock, latest_frame, connected,
                   reconnect_interval, frame, wait>>
    /\ UNCHANGED <<colvars, envvars, storevars>>

\* an _update that returns without cap.release()
ReleaseAtExitNever(c) == handles[c]

\* cap.release() after the loop: the open handles of camera c it leaves
ReleaseAtExit(c) == IF cap[c] = "open" THEN handles[c] - 1 ELSE handles[c]

\* while self.running: ... up to the blocking call of the iteration;
\* cap.release() and the thread's exit when the flag is down
LoopHead(c) ==
    /\ acqpc[c] = "loop"
    /\ IF ~running[c]
       THEN /\ acqpc' = [acqpc EXCEPT ![c] = "done"]
            /\ thread' = [thread EXCEPT ![c] = "exited"]
            /\ handles' = [handles EXCEPT ![c] = ReleaseAtExit(c)]
            /\ cap' = [cap EXCEPT ![c] = "closed"]
            /\ UNCHANGED <<connected, wait>>
       ELSE IF cap[c] # "open"
       THEN /\ connected' = [connected EXCEPT ![c] = FALSE]
            /\ wait' = [wait EXCEPT ![c] = reconnect_interval[c]]
            /\ acqpc' = [acqpc EXCEPT ![c] = "sleep"]
            /\ UNCHANGED <<thread, cap, handles>>
       ELSE /\ connected' = [connected EXCEPT ![c] = TRUE]
            /\ acqpc' = [acqpc EXCEPT ![c] = "read"]
            /\ UNCHANGED <<thread, cap, handles, wait>>
    /\ UNCHANGED <<running, lock, latest_frame, reconnect_interval, frame>>
    /\ UNCHANGED <<colvars, envvars, storevars>>

\* ret, frame = cap.read() returns True
ReadOk(c) ==
    /\ acqpc[c] = "read"
    /\ \E px \in Pixels : frame' = [frame EXCEPT ![c] = [by |-> "cap.read", px |-> px]]
    /\ acqpc' = [acqpc EXCEPT ![c] = "lock"]
    /\ UNCHANGED <<running, thread, lock, latest_frame, connected,
                   reconnect_interval, cap, handles, wait>>
    /\ UNCHANGED <<colvars, envvars, storevars>>

\* a ReadFail that forgets cap.release()
ReadFailNoRelease(c) ==
    /\ acqpc[c] = "read"
    /\ connected' = [connected EXCEPT ![c] = FALSE]
    /\ wait' = [wait EXCEPT ![c] = reconnect_interval[c]]
    /\ acqpc' = [acqpc EXCEPT ![c] = "sleep"]
    /\ UNCHANGED <<running, thread, lock, latest_frame, reconnect_interval,
                   frame, cap, handles>>
    /\ UNCHANGED <<colvars, envvars, storevars>>

\* cap.read() returns False: connected = False, cap.release(), start the wait
ReadFail(c) ==
    /\ acqpc[c] = "read"
    /\ connected' = [connected EXCEPT ![c] = FALSE]
    /\ cap' = [cap EXCEPT ![c] = "closed"]
    /\ handles' = [handles EXCEPT ![c] = @ - 1]
    /\ wait' = [wait EXCEPT ![c] = reconnect_interval[c]]
    /\ acqpc' = [acqpc EXCEPT ![c] = "sleep"]
    /\ UNCHANGED <<running, thread, lock, latest_frame, reconnect_interval, frame>>
    /\ UNCHANGED <<colvars, envvars, storevars>>

\* a wait that doubles the interval for the next failure
SleepDoneBackoff(c) ==
    /\ acqpc[c] = "sleep"
    /\ acqpc' = [acqpc EXCEPT ![c] = "open"]
    /\ reconnect_interval' = [reconnect_interval EXCEPT
                                ![c] = IF @ < 4 * ReconnectInterval THEN 2 * @ ELSE @]
    /\ UNCHANGED <<running, thread, lock, latest_frame, connected,
                   frame, cap, handles, wait>>
    /\ UNCHANGED <<colvars, envvars, storevars>>

\* time.sleep(self.reconnect_interval) returns
SleepDone(c) ==
    /\ acqpc[c] = "sleep"
    /\ acqpc' = [acqpc EXCEPT ![c] = "open"]
    /\ UNCHANGED <<running, thread, lock, latest_frame, connected,
                   reconnect_interval, frame, cap, handles, wait>>
    /\ UNCHANGED <<colvars, envvars, storevars>>

\* a retry that goes on with the capture that failed
ReopenKeepsOld(c) ==
    /\ acqpc[c] = "open"
    /\ wait' = [wait EXCEPT ![c] = 0]
    /\ acqpc' = [acqpc EXCEPT ![c] = "loop"]
    /\ UNCHANGED <<running, thread, lock, latest_frame, connected,
                   reconnect_interval, frame, cap, handles>>
    /\ UNCHANGED <<colvars, envvars, storevars>>

\* cap = cv2.VideoCapture(url_to_open) after the wait; continue
Reopen(c) ==
    /\ acqpc[c] = "open"
    /\ \E ok \in BOOLEAN :
         /\ cap' = [cap EXCEPT ![c] = IF ok THEN "open" ELSE "closed"]
         /\ handles' = [handles EXCEPT ![c] = IF ok /\ @ < 2 THEN @ + 1 ELSE @]
    /\ wait' = [wait EXCEPT ![c] = 0]
    /\ acqpc' = [acqpc EXCEPT ![c] = "loop"]
    /\ UNCHANGED <<running, thread, lock, latest_frame, connected,
                   reconnect_interval, frame>>
    /\ UNCHANGED <<colvars, envvars, storevars>>

\* an AcqLock that does not take the lock
AcqNoLock(c) ==
    /\ acqpc[c] \in {"lock", "t_lock"}
    /\ acqpc' = [acqpc EXCEPT ![c] = IF acqpc[c] = "lock" THEN "store" ELSE "t_store"]
    /\ UNCHANGED <<running, thread, lock, latest_frame, connected,
                   reconnect_interval, frame, cap, handles, wait>>
    /\ UNCHANGED <<colvars, envvars, storevars>>

\* with self.lock: entered
AcqLock(c) ==
    /\ acqpc[c] \in {"lock", "t_lock"}
    /\ lock[c] = "free"
    /\ lock' = [lock EXCEPT ![c] = "acq"]
    /\ acqpc' = [acqpc EXCEPT ![c] = IF acqpc[c] = "lock" THEN "store" ELSE "t_store"]
    /\ UNCHANGED <<running, thread, latest_frame, connected,
                   reconnect_interval, frame, cap, handles, wait>>
    /\ UNCHANGED <<colvars, envvars, storevars>>

\* self.latest_frame = frame.copy(); the with block is left
Store(c) ==
    /\ acqpc[c] = "store"
    /\ latest_frame' = [latest_frame EXCEPT ![c] = Copy(frame[c], "_update")]
    /\ frame' = [frame EXCEPT ![c] = NoFrame]
    /\ lock' = [lock EXCEPT ![c] = "free"]
    /\ acqpc' = [acqpc EXCEPT ![c] = "loop"]
    /\ UNCHANGED <<running, thread, connected, reconnect_interval,
                   cap, handles, wait>>
    /\ UNCHANGED <<colvars, envvars, storevars>>

\* ------------------------------------------- CameraStream._update, "test" source
\* while self.running: frame = np.zeros(...); cv2.randu(frame, 0, 255);
\* return when the flag is down
TestLoopHead(c) ==
    /\ acqpc[c] = "t_loop"
    /\ IF ~running[c]
       THEN /\ acqpc' = [acqpc EXCEPT ![c] = "done"]
            /\ thread' = [thread EXCEPT ![c] = "exited"]
            /\ UNCHANGED frame
       ELSE /\ \E px \in Pixels :
                 frame' = [frame EXCEPT ![c] = [by |-> "np.zeros", px |-> px]]
            /\ acqpc' = [acqpc EXCEPT ![c] = "t_lock"]
            /\ UNCHANGED thread
    /\ UNCHANGED <<running, lock, latest_frame, connected,
                   reconnect_interval, cap, handles, wait>>
    /\ UNCHANGED <<colvars, envvars, storevars>>

\* an acquisition task that hands each frame it makes to the motion detector
TestStoreTouchesGate(c) ==
    /\ acqpc[c] = "t_store"
    /\ latest_frame' = [latest_frame EXCEPT ![c] = frame[c]]
    /\ prev_frame' = [prev_frame EXCEPT ![c] = 20 * frame[c].px]
    /\ acqpc' = [acqpc EXCEPT ![c] = "t_conn"]
    /\ UNCHANGED <<running, thread, lock, connected, reconnect_interval,
                   frame, cap, handles, wait>>
    /\ UNCHANGED <<pc, col_running, idx, ret, frames, current_time,
                   last_capture_times, yolo_annotations, classes_detected,
                   raised, gate, results>>
    /\ UNCHANGED <<envvars, storevars>>

\* self.latest_frame = frame (the array just generated, not a copy)
TestStore(c) ==
    /\ acqpc[c] = "t_store"
    /\ latest_frame' = [latest_frame EXCEPT ![c] = frame[c]]
    /\ acqpc' = [acqpc EXCEPT ![c] = "t_conn"]
    /\ UNCHANGED <<running, thread, lock, connected, reconnect_interval,
                   frame, cap, handles, wait>>
    /\ UNCHANGED <<colvars, envvars, storevars>>

\* a TestConnected with time.sleep(1/15) inside the with block
TestConnectedKeepLock(c) ==
    /\ acqpc[c] = "t_conn"
    /\ connected' = [connected EXCEPT ![c] = TRUE]
    /\ acqpc' = [acqpc EXCEPT ![c] = "t_sleep"]
    /\ UNCHANGED <<running, thread, lock, latest_frame, reconnect_interval,
                   frame, cap, handles, wait>>
    /\ UNCHANGED <<colvars, envvars, storevars>>

\* self.connected = True; the with block is left; time.sleep(1/15) starts
TestConnected(c) ==
    /\ acqpc[c] = "t_conn"
    /\ connected' = [connected EXCEPT ![c] = TRUE]
    /\ lock' = [lock EXCEPT ![c] = "free"]
    /\ acqpc' = [acqpc EXCEPT ![c] = "t_sleep"]
    /\ UNCHANGED <<running, thread, latest_frame, reconnect_interval,
                   frame, cap, handles, wait>>
    /\ UNCHANGED <<colvars, envvars, storevars>>

\* time.sleep(1/15) returns
TestSleepDone(c) ==
    /\ acqpc[c] = "t_sleep"
    /\ acqpc' = [acqpc EXCEPT ![c] = "t_loop"]
    /\ UNCHANGED <<running, thread, lock, latest_frame, connected,
                   reconnect_interval, frame, cap, handles, wait>>
    /\ UNCHANGED <<colvars, envvars, storevars>>

AcquireReal(c) ==
    \/ OpenFirst(c) \/ LoopHead(c) \/ ReadOk(c) \/ ReadFail(c)
    \/ SleepDone(c) \/ Reopen(c) \/ AcqLock(c) \/ Store(c)

AcquireTest(c) ==
    \/ TestLoopHead(c) \/ AcqLock(c) \/ TestStore(c) \/ TestConnected(c)
    \/ TestSleepDone(c)

\* ------------------------------------------------------- CameraStream API
Cur == CamOrder[idx]

\* an entry that does not look for the "test" url
EntryPointNoTest(c) == "open0"

\* where _update starts: the "test" branch or the first VideoCapture
EntryPoint(c) == IF url[c] = "test" THEN "t_loop" ELSE "open0"

\* CameraStream.start(), called by CameraManager.start_all() for each camera
StartCam ==
    /\ pc = "start_all"
    /\ IF running[Cur]
       THEN UNCHANGED <<running, thread, acqpc>>
       ELSE /\ running' = [running EXCEPT ![Cur] = TRUE]
            /\ thread' = [thread EXCEPT ![Cur] = "alive"]
            /\ acqpc' = [acqpc EXCEPT ![Cur] = EntryPoint(Cur)]
    /\ IF idx < NCams
       THEN idx' = idx + 1 /\ pc' = pc
       ELSE idx' = 1 /\ pc' = "det_start"
    /\ UNCHANGED <<lock, latest_frame, connected, reconnect_interval,
                   cap, frame, handles, wait>>
    /\ UNCHANGED <<col_running, ret, frames, current_time, last_capture_times,
                   yolo_annotations, classes_detected, raised, prev_frame, gate, results>>
    /\ UNCHANGED <<envvars, storevars>>

\* InferenceEngine.start()
DetStart ==
    /\ pc = "det_start"
    /\ det_running' = TRUE
    /\ pc' = "loop"
    /\ UNCHANGED <<camvars, storevars, now, det_stopped, stopped, url, motion_enabled, platform, save_empty>>
    /\ UNCHANGED <<col_running, idx, ret, frames, current_time, last_capture_times,
                   yolo_annotations, classes_detected, raised, prev_frame, gate, results>>

\* a loop test that ignores the flag
LoopTestAlways == TRUE

\* the test of `while self.running:` in run()
LoopTest == col_running

\* while self.running: frames = {} of get_frames(), or leave the loop
\* for cleanup()
LoopCheck ==
    /\ pc = "loop"
    /\ IF LoopTest
       THEN pc' = "gf_lock" /\ frames' = [c \in Cams |-> NoFrame]
       ELSE pc' = "stop" /\ UNCHANGED frames
    /\ idx' = 1
    /\ UNCHANGED <<camvars, envvars, storevars>>
    /\ UNCHANGED <<col_running, ret, current_time, last_capture_times,
                   yolo_annotations, classes_detected, raised, prev_frame, gate, results>>

\* get_frame(): with self.lock: entered
GfAcquire ==
    /\ pc = "gf_lock"
    /\ lock[Cur] = "free"
    /\ lock' = [lock EXCEPT ![Cur] = "col"]
    /\ pc' = "gf_copy"
    /\ UNCHANGED <<running, thread, latest_frame, connected, reconnect_interval,
                   acqpc, cap, frame, handles, wait>>
    /\ UNCHANGED <<col_running, idx, ret, frames, current_time, last_capture_times,
                   yolo_annotations, classes_detected, raised, prev_frame, gate, results>>
    /\ UNCHANGED <<envvars, storevars>>

\* a get_frame() that hands out the mailbox array itself
ReturnValueNoCopy(f) == f

\* the value get_frame() returns for mailbox content f
ReturnValue(f) == IF f = NoFrame THEN NoFrame ELSE Copy(f, "get_frame")

\* get_frame(): None, or self.latest_frame.copy()
GfCopy ==
    /\ pc = "gf_copy"
    /\ ret' = ReturnValue(latest_frame[Cur])
    /\ pc' = "gf_unlock"
    /\ UNCHANGED <<camvars, envvars, storevars>>
    /\ UNCHANGED <<col_running, idx, frames, current_time, last_capture_times,
                   yolo_annotations, classes_detected, raised, prev_frame, gate, results>>

\* get_frame() returns; get_frames() stores the frame unless it is None and,
\* after the last camera, returns; current_time = time.time()
GfRelease ==
    /\ pc = "gf_unlock"
    /\ lock' = [lock EXCEPT ![Cur] = "free"]
    /\ frames' = [frames EXCEPT ![Cur] = ret]
    /\ ret' = NoFrame
    /\ IF idx < NCams
       THEN idx' = idx + 1 /\ pc' = "gf_lock" /\ UNCHANGED current_time
       ELSE idx' = 1 /\ pc' = "for" /\ current_time' = now
    /\ UNCHANGED <<running, thread, latest_frame, connected, reconnect_interval,
                   acqpc, cap, frame, handles, wait>>
    /\ UNCHANGED <<col_running, last_capture_times,
                   yolo_annotations, classes_detected, raised, prev_frame, gate, results>>
    /\ UNCHANGED <<envvars, storevars>>

\* ---------------------------------------------------------- MotionDetector
MotionThreshold == 25

\* cv2.cvtColor(frame, COLOR_BGR2GRAY) and GaussianBlur: the gray level of
\* a frame whose content is px
Gray(f) == 20 * f.px

AbsDiff(a, b) == IF a >= b THEN a - b ELSE b - a

\* a frame-differencing gate that compares the first frame with nothing
\* stored instead of answering True
DetectNoFirst(prev, f) == AbsDiff(prev, Gray(f)) > MotionThreshold

\* MotionDetector.detect: the answer for reference prev (NoRef: None) and frame f
Detect(prev, f) == IF prev = NoRef THEN TRUE ELSE AbsDiff(prev, Gray(f)) > MotionThreshold

\* CameraStream.check_motion of the rpi package (frame differencing)
CheckMotion(c, f) == IF motion_enabled THEN Detect(prev_frame[c], f) ELSE TRUE

\* the answers check_motion(f) of camera c can give in the running package:
\* the jetson MotionDetector answers from opencv's MOG2 background model
\* when enabled, and True without touching it when disabled
GateAnswers(c, f) ==
    IF platform = "rpi" THEN {CheckMotion(c, f)}
    ELSE IF motion_enabled THEN BOOLEAN ELSE {TRUE}

\* a motion detector that updates its state although it is disabled
GateStateAlways(c, f) == Gray(f)

\* a motion detector that keeps its old reference when it answers False
GateStateOnMotion(c, f) ==
    IF motion_enabled /\ Detect(prev_frame[c], f) THEN Gray(f) ELSE prev_frame[c]

\* what camera c's motion detector has absorbed after check_motion(f): the
\* reference frame (rpi) or the last frame applied to the background model
\* (jetson); nothing when motion detection is disabled
GateState(c, f) == IF motion_enabled THEN Gray(f) ELSE prev_frame[c]

\* whether run() asks the motion gate before the detector
CallsGate == platform = "jetson"

\* the frames a caller of the API can pass: any content, all-black included
CallFrames == {[by |-> "caller", px |-> px] : px \in 0..MaxPixel}

\* CameraManager.check_motion(c, frame) called directly, collector not started
GateCall(c) ==
    /\ pc = "start_all"
    /\ \E f \in CallFrames : \E ans \in GateAnswers(c, f) :
         /\ gate' = [cam |-> c, px |-> f.px, ans |-> ans]
         /\ prev_frame' = [prev_frame EXCEPT ![c] = GateState(c, f)]
    /\ UNCHANGED <<camvars, envvars, storevars>>
    /\ UNCHANGED <<pc, col_running, idx, ret, frames, current_time,
                   last_capture_times, yolo_annotations, classes_detected,
                   raised, results>>

\* ------------------------------------------------------- mask_to_polygon
\* the filled rectangles of set pixels that fit a w x h mask
Rects(w, h) ==
    {r \in [x0 : 0..(w - 1), x1 : 0..(w - 1), y0 : 0..(h - 1), y1 : 0..(h - 1)] :
        r.x0 <= r.x1 /\ r.y0 <= r.y1}

\* two regions that are not 8-connected: a column or a row of zeros between them
Apart(r, q) ==
    \/ r.x1 + 1 < q.x0 \/ q.x1 + 1 < r.x0
    \/ r.y1 + 1 < q.y0 \/ q.y1 + 1 < r.y0

\* the binary masks (h, w = mask.shape) that are all zero or have one region
\* of set pixels
Masks ==
    UNION {{[w |-> w, h |-> h, blobs |-> B] :
                B \in {{}} \cup {{r} : r \in Rects(w, h)}} :
              <<w, h>> \in (1..MaxSide) \X (1..MaxSide)}

\* the outer contour of one filled region with CHAIN_APPROX_SIMPLE: its
\* corner pixels, as (x, y) pixel indices
Contour(r) ==
    IF r.x0 = r.x1 /\ r.y0 = r.y1 THEN << <<r.x0, r.y0>> >>
    ELSE IF r.x0 = r.x1 THEN << <<r.x0, r.y0>>, <<r.x0, r.y1>> >>
    ELSE IF r.y0 = r.y1 THEN << <<r.x0, r.y0>>, <<r.x1, r.y0>> >>
    ELSE << <<r.x0, r.y0>>, <<r.x0, r.y1>>, <<r.x1, r.y1>>, <<r.x1, r.y0>> >>

RECURSIVE ContourLists(_)
\* the lists of the contours of the regions B, in every order
ContourLists(B) ==
    IF B = {} THEN {<<>>}
    ELSE UNION {{<<Contour(r)>> \o rest : rest \in ContourLists(B \ {r})} : r \in B}

\* cv2.findContours(mask, RETR_EXTERNAL, CHAIN_APPROX_SIMPLE): one contour
\* per region, in the order opencv finds them
FindContours(m) == ContourLists(m.blobs)

RECURSIVE Shoelace(_, _)
\* the sum of the cross products of the contour's edges i..n
Shoelace(c, i) ==
    IF i > Len(c) THEN 0
    ELSE LET j == (i % Len(c)) + 1
         IN  c[i][1] * c[j][2] - c[j][1] * c[i][2] + Shoelace(c, i + 1)

\* twice cv2.contourArea(contour)
TwiceArea(c) == LET t == Shoelace(c, 1) IN IF t < 0 THEN 0 - t ELSE t

\* the small-noise filter: cv2.contourArea(contour) < 10
Noise(c) == TwiceArea(c) < 20

\* cv2.approxPolyDP(contour, 0.001 * arcLength, True): the corners of a
\* rectangle are each further from the chord of their neighbours than this
\* epsilon, so they are all kept
ApproxPolyDP(c) == c

\* a normalisation that divides x by the height and y by the width
NormalizeSwapped(c, w, h) ==
    [k \in 1..(2 * Len(c)) |->
        IF k % 2 = 1 THEN [num |-> c[(k + 1) \div 2][1], den |-> h]
                     ELSE [num |-> c[k \div 2][2], den |-> w]]

\* approx.flatten(), points[0::2] /= w, points[1::2] /= h: the list
\* x1 y1 x2 y2 ... of quotients, each kept as numerator and denominator
Normalize(c, w, h) ==
    [k \in 1..(2 * Len(c)) |->
        IF k % 2 = 1 THEN [num |-> c[(k + 1) \div 2][1], den |-> w]
                     ELSE [num |-> c[k \div 2][2], den |-> h]]

\* mask_to_polygon(mask), for the contours cs that findContours returned
MaskToPolygon(m, cs) ==
    LET Kept(c) == ~Noise(c)
        kept == SelectSeq(cs, Kept)
    IN  [i \in 1..Len(kept) |-> Normalize(ApproxPolyDP(kept[i]), m.w, m.h)]

\* ------------------------------------------------- DataCollector.run, for loop
\* class id -> class name (list form of class_names)
Resolve(cls) == IF cls < Len(ClassNames) THEN ClassNames[cls + 1] ELSE ToString(cls)

\* a filter without the confidence test
KeepsAnyScore(d) == /\ ~(TargetClasses # {} /\ Resolve(d.cls) \notin TargetClasses)
                    /\ d.npoly > 0

\* the test applied to each detection before its mask is converted
Keeps(d) == /\ ~(d.score < MinConfidence)
            /\ ~(TargetClasses # {} /\ Resolve(d.cls) \notin TargetClasses)
            /\ d.npoly > 0

\* the mask of detection d: a region the size of the frame's object, two
\* regions apart from each other, or nothing that survives the area filter
DetMask(d) ==
    [w |-> MaxSide, h |-> IF d.npoly = 2 THEN MaxSide + 1 ELSE MaxSide,
     blobs |-> IF d.npoly = 0 THEN {}
               ELSE IF d.npoly = 1
               THEN {[x0 |-> 0, x1 |-> MaxSide - 1, y0 |-> 0, y1 |-> MaxSide - 1]}
               ELSE {[x0 |-> 0, x1 |-> MaxSide - 1, y0 |-> 0, y1 |-> 2],
                     [x0 |-> 0, x1 |-> MaxSide - 1, y0 |-> 4, y1 |-> MaxSide]}]

\* polygons = mask_to_polygon(mask) for detection d
DetPolygons(d) ==
    MaskToPolygon(DetMask(d), CHOOSE cs \in FindContours(DetMask(d)) : TRUE)

\* f"{p:.6f}" of the quotient p: its decimal text with six digits after the
\* point, as the number of millionths it shows (rounded to nearest)
Fixed6(p) == (2 * 1000000 * p.num + p.den) \div (2 * p.den)

\* f"{class_id} " + " ".join(...): the tokens of one line
FormatLine(class_id, poly) ==
    <<class_id>> \o [k \in 1..Len(poly) |-> Fixed6(poly[k])]

RECURSIVE Joined(_)
\* the coordinates of all polygons, one after the other
Joined(polys) ==
    IF polys = <<>> THEN <<>> ELSE Head(polys) \o Joined(Tail(polys))

\* a formatter that puts all polygons of a detection on one line
FormatYoloLabelJoined(class_id, polys) ==
    IF polys = <<>> THEN <<>> ELSE <<FormatLine(class_id, Joined(polys))>>

\* format_yolo_label(class_id, polygons): one line per polygon
FormatYoloLabel(class_id, polys) ==
    [i \in 1..Len(polys) |-> FormatLine(class_id, polys[i])]

RECURSIVE Annotations(_)
Annotations(dets) ==
    IF dets = <<>> THEN <<>>
    ELSE (IF Keeps(Head(dets)) THEN FormatYoloLabel(Head(dets).cls, DetPolygons(Head(dets)))
          ELSE <<>>) \o Annotations(Tail(dets))

RECURSIVE ClassesDetected(_)
ClassesDetected(dets) ==
    IF dets = <<>> THEN <<>>
    ELSE (IF Keeps(Head(dets)) THEN <<Resolve(Head(dets).cls)>> ELSE <<>>)
         \o ClassesDetected(Tail(dets))

InferResults == UNION {[1..n -> Detections] : n \in 0..MaxDet}

\* a throttle test that never skips
ThrottledNever(c) == FALSE

\* if current_time - last_time < self.capture_interval: continue
Throttled(c) == current_time - last_capture_times[c] < CaptureInterval

\* a test of the detector's answer that never skips
SkipsNever(res) == FALSE

\* if not results: continue (None from an engine that is not running, an
\* empty list), or no annotation survives the filter: no save_sample call
Skips(res) == ~det_running \/ res = <<>> \/ Annotations(res) = <<>>

\* results a caller can hand to the filter: up to MaxDet + 1 detections
FilterInputs == UNION {[1..n -> Detections] : n \in 0..(MaxDet + 1)}

\* masks, class_ids, scores = results, for any result of the detector
DrawResults ==
    /\ pc = "start_all"
    /\ results = <<>> /\ yolo_annotations = <<>>
    /\ results' \in FilterInputs \ {<<>>}
    /\ UNCHANGED <<camvars, envvars, storevars>>
    /\ UNCHANGED <<pc, col_running, idx, ret, frames, current_time,
                   last_capture_times, yolo_annotations, classes_detected,
                   raised, prev_frame, gate>>

\* the loop over zip(masks, class_ids, scores) on those results
FilterResults ==
    /\ pc = "start_all"
    /\ results # <<>>
    /\ yolo_annotations' = Annotations(results)
    /\ classes_detected' = ClassesDetected(results)
    /\ UNCHANGED <<camvars, envvars, storevars>>
    /\ UNCHANGED <<pc, col_running, idx, ret, frames, current_time,
                   last_capture_times, raised, prev_frame, gate, results>>

\* the frames dict once the entry of camera c is no longer read (the loop
\* has moved past it)
Done(c) == [frames EXCEPT ![c] = NoFrame]

\* for cam_id, frame in frames.items(): throttle test and motion test of the
\* next camera, up to the detector call; after the last camera, time.sleep
ForHead ==
    /\ pc = "for"
    /\ IF idx > NCams
       THEN /\ pc' = "sleep"
            /\ current_time' = 0
            /\ gate' = NoGate
            /\ UNCHANGED <<idx, prev_frame, frames>>
       ELSE /\ UNCHANGED current_time
            /\ IF frames[Cur] = NoFrame
               THEN /\ idx' = idx + 1
                    /\ gate' = NoGate
                    /\ UNCHANGED <<pc, prev_frame, frames>>
               ELSE IF Throttled(Cur)
               THEN /\ idx' = idx + 1
                    /\ frames' = Done(Cur)
                    /\ gate' = NoGate
                    /\ UNCHANGED <<pc, prev_frame>>
               ELSE IF CallsGate
               THEN \E ans \in GateAnswers(Cur, frames[Cur]) :
                    /\ prev_frame' = [prev_frame EXCEPT
                                        ![Cur] = GateState(Cur, frames[Cur])]
                    /\ gate' = [cam |-> Cur, px |-> frames[Cur].px, ans |-> ans]
                    /\ IF ans
                       THEN pc' = "infer" /\ UNCHANGED <<idx, frames>>
                       ELSE idx' = idx + 1 /\ frames' = Done(Cur) /\ UNCHANGED pc
               ELSE /\ pc' = "infer"
                    /\ gate' = NoGate
                    /\ UNCHANGED <<idx, frames, prev_frame>>
    /\ UNCHANGED <<camvars, envvars, storevars>>
    /\ UNCHANGED <<col_running, ret, last_capture_times,
                   yolo_annotations, classes_detected, raised, results>>

\* self.inference_engine.infer(frame) returns; the detections are filtered
\* and formatted
InferWith(R) ==
    /\ pc = "infer"
    /\ \E res \in R :
         /\ res # <<>> => budget > 0
         /\ budget' = IF res # <<>> THEN budget - 1 ELSE budget
         /\ IF Skips(res)
            THEN /\ idx' = idx + 1
                 /\ pc' = "for"
                 /\ frames' = Done(Cur)
                 /\ yolo_annotations' = <<>>
                 /\ classes_detected' = <<>>
                 /\ results' = <<>>
            ELSE /\ yolo_annotations' = Annotations(res)
                 /\ classes_detected' = ClassesDetected(res)
                 /\ results' = res
                 /\ pc' = "save"
                 /\ UNCHANGED <<idx, frames>>
    /\ UNCHANGED <<camvars, envvars, images, labels, catalog, last_save, writervars>>
    /\ UNCHANGED <<col_running, ret, current_time, last_capture_times,
                   raised, prev_frame, gate>>

InferDone == InferWith(InferResults)

\* self.inference_engine.infer(frame) raises: except Exception in run()
InferRaise ==
    /\ pc = "infer"
    /\ raised' = "infer"
    /\ pc' = "stop"
    /\ idx' = 1
    /\ frames' = [c \in Cams |-> NoFrame]
    /\ current_time' = 0
    /\ gate' = NoGate
    /\ UNCHANGED <<camvars, envvars, storevars>>
    /\ UNCHANGED <<col_running, ret, last_capture_times,
                   yolo_annotations, classes_detected, prev_frame, results>>

\* ------------------------------------------------------------ DatasetWriter
Splits == {"train", "val"}
Uuids == 1..MaxUuid

\* int(timestamp * 1000) for a clock that advances in whole seconds
Millis(t) == 1000 * t

\* a frame id that leaves the camera id out
FrameIdNoCamera(c, t, u) == <<"frame", Millis(t), u>>

\* frame_id = f"{camera_id}_{int(timestamp * 1000)}_{str(uuid.uuid4())[:8]}"
FrameId(c, t, u) == <<c, Millis(t), u>>

\* img_rel_path = os.path.join(self.images_dir, split, f"{frame_id}.jpg")
ImagePath(split, id) == <<"images", split, id, "jpg">>

\* a label path that always lies in the train directory
LabelPathTrain(split, id) == <<"labels", "train", id, "txt">>

\* lbl_rel_path = os.path.join(self.labels_dir, split, f"{frame_id}.txt")
LabelPath(split, id) == <<"labels", split, id, "txt">>

\* cv2.imwrite(path, frame) that succeeds: the file at path holds the frame
WriteImage(files, path, px) ==
    {f \in files : f.path # path} \cup {[path |-> path, px |-> px]}

\* open(path, 'w') and write: the file at path holds the joined lines
WriteLabel(files, path, lines) ==
    {f \in files : f.path # path} \cup {[path |-> path, lines |-> lines]}

\* a row whose objects_count counts the detections
RowCountsDetections(c, t, u, split, annotations, classes) ==
    [id |-> FrameId(c, t, u), camera_id |-> c, timestamp |-> t,
     split |-> split,
     image_path |-> ImagePath(split, FrameId(c, t, u)),
     label_path |-> LabelPath(split, FrameId(c, t, u)),
     objects_count |-> Len(classes),
     classes |-> classes]

\* the values log_to_db binds to the INSERT
Row(c, t, u, split, annotations, classes) ==
    [id |-> FrameId(c, t, u), camera_id |-> c, timestamp |-> t,
     split |-> split,
     image_path |-> ImagePath(split, FrameId(c, t, u)),
     label_path |-> LabelPath(split, FrameId(c, t, u)),
     objects_count |-> Len(annotations),
     classes |-> classes]

\* id TEXT PRIMARY KEY: the rows that make an INSERT of this id fail
Clashes(cat, id) == {i \in 1..Len(cat) : cat[i].id = id}

\* an INSERT that replaces the row holding the same id
InsertOrReplace(cat, row) ==
    IF Clashes(cat, row.id) = {} THEN Append(cat, row)
    ELSE [i \in 1..Len(cat) |-> IF cat[i].id = row.id THEN row ELSE cat[i]]

\* INSERT INTO frames ... VALUES (...); commit
Insert(cat, row) == IF Clashes(cat, row.id) = {} THEN Append(cat, row) ELSE cat

\* a setup_database that creates the table anew
CreateTableAnew(cat) == <<>>

\* CREATE TABLE IF NOT EXISTS frames (...)
CreateTable(cat) == cat

\* a save_sample that never returns early
EarlyReturnNever(annotations) == FALSE

\* if not annotations and not self.config.get('save_empty', False): return
EarlyReturn(annotations) == annotations = <<>> /\ ~save_empty

\* DatasetWriter.save_sample with log_to_db, run by the collector thread:
\* cv2.imwrite returns True, returns False or raises; open()/write of the
\* label file succeeds or raises; the INSERT succeeds or fails inside
\* log_to_db's try
SaveSample(f, c, annotations, classes) ==
    IF EarlyReturn(annotations)
    THEN /\ last_save' = [NoSave EXCEPT !.signal = "return"]
         /\ UNCHANGED <<images, labels, catalog>>
    ELSE \E split \in Splits, u \in Uuids, img \in {"ok", "false", "raise"},
            lbl \in {"ok", "raise"}, db \in {"ok", "fail"} :
         LET row == Row(c, now, u, split, annotations, classes)
             wrote_img == img = "ok"
             wrote_lbl == img # "raise" /\ lbl = "ok"
             logged == wrote_lbl /\ db = "ok" /\ Clashes(catalog, row.id) = {}
         IN /\ images' = IF wrote_img
                         THEN WriteImage(images, row.image_path, f.px)
                         ELSE images
            /\ labels' = IF wrote_lbl
                         THEN WriteLabel(labels, row.label_path, annotations)
                         ELSE labels
            /\ catalog' = IF wrote_lbl /\ db = "ok" THEN Insert(catalog, row)
                          ELSE catalog
            /\ last_save' = [img |-> img,
                             lbl |-> IF img = "raise" THEN "none" ELSE lbl,
                             inserted |-> logged,
                             signal |-> IF wrote_lbl THEN "return" ELSE "raise"]

\* ------------------------- DatasetWriter.save_sample called from other threads
\* the annotation lists a direct caller passes
AnnotationLists ==
    {<<>>, FormatYoloLabel(0, DetPolygons([cls |-> 0, score |-> 95, npoly |-> 1]))}

\* the class names that go with them
CallClasses(annotations) ==
    [k \in 1..Len(annotations) |-> Resolve(annotations[k][1])]

\* the row of the call caller w has in progress
CallRow(w) == Row(w, wcall[w].timestamp, wcall[w].uuid, wcall[w].split,
                  wcall[w].annotations, CallClasses(wcall[w].annotations))

\* direct calls made so far by the first i callers
RECURSIVE CallsMade(_)
CallsMade(i) == IF i = 0 THEN 0 ELSE wcall[CamOrder[i]].calls + CallsMade(i - 1)

\* what stays of a call once save_sample has returned or raised
Returned(call, res) == [NoCall EXCEPT !.res = res, !.calls = call.calls]

\* save_sample(frame, w, annotations, classes) is entered: the early return,
\* or timestamp, frame_id and split are drawn; successive calls pass frames
\* of different content
SaveCall(w) ==
    /\ wpc[w] = "idle"
    /\ CallsMade(NCams) < MaxCalls
    /\ \E ann \in AnnotationLists, px \in {(CallsMade(NCams) % MaxPixel) + 1} :
         IF EarlyReturn(ann)
         THEN /\ wcall' = [wcall EXCEPT ![w] = [NoCall EXCEPT
                              !.res = "noop", !.calls = wcall[w].calls + 1]]
              /\ UNCHANGED wpc
         ELSE \E u \in Uuids, split \in Splits :
              /\ wcall' = [wcall EXCEPT ![w] =
                             [annotations |-> ann, px |-> px, timestamp |-> now,
                              uuid |-> u, split |-> split, res |-> "none",
                              clash |-> "none", calls |-> wcall[w].calls + 1]]
              /\ wpc' = [wpc EXCEPT ![w] = "w_img"]
    /\ UNCHANGED <<camvars, colvars, envvars>>
    /\ UNCHANGED <<images, labels, catalog, last_save, budget, inits, dirs, utilvars>>

\* cv2.imwrite(img_full_path, frame)
WriterImage(w) ==
    /\ wpc[w] = "w_img"
    /\ \E img \in {"ok", "false", "raise"} :
         /\ images' = IF img = "ok"
                      THEN WriteImage(images, CallRow(w).image_path, wcall[w].px)
                      ELSE images
         /\ IF img = "raise"
            THEN /\ wpc' = [wpc EXCEPT ![w] = "idle"]
                 /\ wcall' = [wcall EXCEPT ![w] = Returned(wcall[w], "none")]
            ELSE /\ wpc' = [wpc EXCEPT ![w] = "w_lbl"]
                 /\ UNCHANGED wcall
    /\ UNCHANGED <<camvars, colvars, envvars>>
    /\ UNCHANGED <<labels, catalog, last_save, budget, inits, dirs, utilvars>>

\* with open(lbl_full_path, 'w') as f: f.write('\n'.join(annotations))
WriterLabel(w) ==
    /\ wpc[w] = "w_lbl"
    /\ \E lbl \in {"ok", "raise"} :
         IF lbl = "ok"
         THEN /\ labels' = WriteLabel(labels, CallRow(w).label_path,
                                      wcall[w].annotations)
              /\ wpc' = [wpc EXCEPT ![w] = "w_db"]
              /\ UNCHANGED wcall
         ELSE /\ wpc' = [wpc EXCEPT ![w] = "idle"]
              /\ wcall' = [wcall EXCEPT ![w] = Returned(wcall[w], "none")]
              /\ UNCHANGED labels
    /\ UNCHANGED <<camvars, colvars, envvars>>
    /\ UNCHANGED <<images, catalog, last_save, budget, inits, dirs, utilvars>>

\* self.log_to_db(...): the INSERT commits, fails on the primary key, or
\* fails otherwise; every failure is caught and logged
WriterLog(w) ==
    /\ wpc[w] = "w_db"
    /\ \E db \in {"ok", "fail"} :
         /\ catalog' = IF db = "ok" THEN Insert(catalog, CallRow(w)) ELSE catalog
         /\ wcall' = [wcall EXCEPT
                        ![w].res = IF db = "fail" THEN "db_fail"
                                   ELSE IF Clashes(catalog, CallRow(w).id) # {}
                                   THEN "unique" ELSE "ok",
                        ![w].clash = IF db = "ok" /\ Clashes(catalog, CallRow(w).id) # {}
                                     THEN catalog[CHOOSE i \in Clashes(catalog, CallRow(w).id) : TRUE].camera_id
                                     ELSE "none"]
    /\ wpc' = [wpc EXCEPT ![w] = "w_ret"]
    /\ UNCHANGED <<camvars, colvars, envvars>>
    /\ UNCHANGED <<images, labels, last_save, budget, inits, dirs, utilvars>>

\* logger.debug(...); save_sample returns
WriterReturn(w) ==
    /\ wpc[w] = "w_ret"
    /\ wpc' = [wpc EXCEPT ![w] = "idle"]
    /\ wcall' = [wcall EXCEPT ![w] = Returned(wcall[w], "none")]
    /\ UNCHANGED <<camvars, colvars, envvars>>
    /\ UNCHANGED <<images, labels, catalog, last_save, budget, inits, dirs, utilvars>>

\* DatasetWriter(config) is constructed again over the same base path:
\* setup_directories() and setup_database()
SetupStore ==
    /\ inits < MaxInits
    /\ inits' = inits + 1
    /\ UNCHANGED utilvars
    /\ dirs' = EnsureDirectories(dirs, SplitDirs)
    /\ catalog' = CreateTable(catalog)
    /\ UNCHANGED <<camvars, colvars, envvars>>
    /\ UNCHANGED <<images, labels, last_save, budget, wpc, wcall>>

Writer(w) == SaveCall(w) \/ WriterImage(w) \/ WriterLabel(w) \/ WriterLog(w)
             \/ WriterReturn(w)

\* if yolo_annotations: save_sample(...) returns or raises;
\* self.last_capture_times[cam_id] = current_time
\* a collector that keeps one last-sample time for all cameras
StampAll(times, c, t) == [k \in Cams |-> t]

\* self.last_capture_times[cam_id] = current_time
Stamp(times, c, t) == [times EXCEPT ![c] = t]

\* a collector that reads the camera's mailbox again for the save
SavedFrameFresh(c) == latest_frame[c]

\* the frame argument of save_sample: the loop variable frame, the entry of
\* camera c in the dict get_frames() returned
SavedFrame(c) == frames[c]

SaveDone ==
    /\ pc = "save"
    /\ SaveSample(SavedFrame(Cur), Cur, yolo_annotations, classes_detected)
    /\ IF last_save'.signal = "raise"
       THEN /\ raised' = "save"
            /\ pc' = "stop"
            /\ idx' = 1
            /\ frames' = [c \in Cams |-> NoFrame]
            /\ current_time' = 0
            /\ UNCHANGED last_capture_times
       ELSE /\ last_capture_times' = Stamp(last_capture_times, Cur, current_time)
            /\ idx' = idx + 1
            /\ pc' = "for"
            /\ frames' = Done(Cur)
            /\ UNCHANGED <<raised, current_time>>
    /\ yolo_annotations' = <<>>
    /\ classes_detected' = <<>>
    /\ results' = <<>>
    /\ UNCHANGED <<camvars, envvars, budget, writervars>>
    /\ UNCHANGED <<col_running, ret, prev_frame, gate>>

\* time.sleep(...) at the end of the iteration returns
PollSleepDone ==
    /\ pc = "sleep"
    /\ pc' = "loop"
    /\ UNCHANGED <<camvars, envvars, storevars>>
    /\ UNCHANGED <<col_running, idx, ret, frames, current_time, last_capture_times,
                   yolo_annotations, classes_detected, raised, prev_frame, gate, results>>

\* ------------------------------------------------------------------ cleanup
\* CameraStream.stop(): self.running = False
StopSet ==
    /\ pc = "stop"
    /\ running' = [running EXCEPT ![Cur] = FALSE]
    /\ pc' = "join"
    /\ UNCHANGED <<thread, lock, latest_frame, connected, reconnect_interval,
                   acqpc, cap, frame, handles, wait>>
    /\ UNCHANGED <<col_running, idx, ret, frames, current_time, last_capture_times,
                   yolo_annotations, classes_detected, raised, prev_frame, gate, results>>
    /\ UNCHANGED <<envvars, storevars>>

\* a join that does not wait
JoinReadyNoWait(c) == TRUE

\* if self.thread: self.thread.join() can return
JoinReady(c) == thread[c] # "alive"

\* CameraStream.stop() returns; stop_all() goes to the next camera
Join ==
    /\ pc = "join"
    /\ JoinReady(Cur)
    /\ stopped' = [stopped EXCEPT ![Cur] = TRUE]
    /\ IF idx < NCams
       THEN idx' = idx + 1 /\ pc' = "stop"
       ELSE idx' = 1 /\ pc' = "det_stop"
    /\ UNCHANGED <<camvars, storevars, now, det_running, det_stopped, url, motion_enabled, platform, save_empty>>
    /\ UNCHANGED <<col_running, ret, frames, current_time, last_capture_times,
                   yolo_annotations, classes_detected, raised, prev_frame, gate, results>>

\* InferenceEngine.stop(); cleanup() and run() return
DetStop ==
    /\ pc = "det_stop"
    /\ det_running' = FALSE
    /\ det_stopped' = TRUE
    /\ pc' = "returned"
    /\ UNCHANGED <<camvars, storevars, now, stopped, url, motion_enabled, platform, save_empty>>
    /\ UNCHANGED <<col_running, idx, ret, frames, current_time, last_capture_times,
                   yolo_annotations, classes_detected, raised, prev_frame, gate, results>>

\* ------------------------------------------------------------- environment
\* DataCollector.shutdown, the SIGINT/SIGTERM handler
Shutdown ==
    /\ col_running
    /\ col_running' = FALSE
    /\ UNCHANGED <<camvars, envvars, storevars>>
    /\ UNCHANGED <<pc, idx, ret, frames, current_time, last_capture_times,
                   yolo_annotations, classes_detected, raised, prev_frame, gate, results>>

\* the clock read by time.time() advances
Tick ==
    /\ now < MaxTime
    /\ now' = now + 1
    /\ UNCHANGED <<camvars, colvars, storevars, det_running, det_stopped, stopped,
                   url, motion_enabled, platform, save_empty>>

Startup == StartCam \/ DetStart

Poll == LoopCheck \/ GfAcquire \/ GfCopy \/ GfRelease \/ ForHead \/ InferDone
        \/ PollSleepDone

Cleanup == StopSet \/ Join \/ DetStop

\* a caller picks a mask, or sets one more region of pixels in the one it has
DrawMask ==
    /\ pc = "start_all"
    /\ polygons = NotCalled
    /\ \/ mask = NoMask /\ mask' \in Masks \ {NoMask}
       \/ /\ mask.blobs # {} /\ Cardinality(mask.blobs) < MaxBlobs
          /\ \E r \in Rects(mask.w, mask.h) :
               /\ \A q \in mask.blobs : Apart(r, q)
               /\ mask' = [mask EXCEPT !.blobs = @ \cup {r}]
    /\ UNCHANGED <<contours, polygons, label_class, label_lines, resolvevars, apivars>>
    /\ UNCHANGED <<camvars, colvars, envvars>>
    /\ UNCHANGED <<images, labels, catalog, last_save, budget, wpc, wcall, inits, dirs>>

\* the caller calls mask_to_polygon(mask)
MaskToPolygonCall ==
    /\ pc = "start_all"
    /\ polygons = NotCalled
    /\ \E cs \in FindContours(mask) :
         /\ contours' = cs
         /\ polygons' = MaskToPolygon(mask, cs)
    /\ UNCHANGED <<mask, label_class, label_lines, resolvevars, apivars>>
    /\ UNCHANGED <<camvars, colvars, envvars>>
    /\ UNCHANGED <<images, labels, catalog, last_save, budget, wpc, wcall, inits, dirs>>

Next ==
    \/ \E c \in Cams : AcquireReal(c) \/ AcquireTest(c)
    \/ Startup \/ Poll \/ InferRaise \/ SaveDone \/ Cleanup
    \/ Shutdown \/ Tick

\* every configuration, every action
Spec == Init /\ [][Next]_vars

\* one real and one "test" camera, motion detection off, a detector that
\* finds nothing: the acquisition threads against the polling collector
InitCameras == InitWith([c \in Cams |-> IF c = "c1" THEN "rtsp" ELSE "test"], FALSE, 0)

NextCameras ==
    \/ \E c \in Cams : AcquireReal(c) \/ AcquireTest(c)
    \/ Startup \/ Poll \/ InferRaise \/ Cleanup
    \/ Shutdown

SpecCameras == InitCameras /\ [][NextCameras]_vars

\* the threads are scheduled fairly and blocking calls in flight complete;
\* a thread waiting for a lock gets it when it is free again and again (it is
\* free during every device read and every sleep); signals are not forced
FairCameras ==
    /\ SpecCameras
    /\ WF_vars(Startup \/ Poll \/ InferRaise \/ Cleanup)
    /\ SF_vars(GfAcquire)
    /\ \A c \in Cams : WF_vars(AcquireReal(c) \/ AcquireTest(c))
    /\ \A c \in Cams : SF_vars(AcqLock(c))

\* a retry whose VideoCapture opens the source
ReopenOk(c) == Reopen(c) /\ cap'[c] = "open"

\* the same, with a source that is available again and again: a retry that
\* is attempted again and again opens it, and a read that is attempted again
\* and again returns a frame
FairReconnect ==
    /\ FairCameras
    /\ \A c \in Cams : SF_vars(ReopenOk(c)) /\ SF_vars(ReadOk(c))

\* the simulator's configuration (two "test" cameras), a detector that finds
\* objects, raises or finds nothing, and a dataset store whose writes can fail
InitCollector == InitWith([c \in Cams |-> "test"], FALSE, MaxRows)

NextCollector ==
    \/ \E c \in Cams : AcquireTest(c)
    \/ Startup \/ Poll \/ InferRaise \/ SaveDone \/ Cleanup
    \/ Shutdown \/ Tick

SpecCollector == InitCollector /\ [][NextCollector]_vars

FairCollector ==
    /\ SpecCollector
    /\ WF_vars(Startup \/ Poll \/ InferRaise \/ SaveDone \/ Cleanup)
    /\ SF_vars(GfAcquire)
    /\ \A c \in Cams : WF_vars(AcquireTest(c))
    /\ \A c \in Cams : SF_vars(AcqLock(c))

\* the simulator's configuration with a detector that does not raise and a
\* store whose writes all succeed: sample after sample is saved
InitSampling == InitWith([c \in Cams |-> "test"], FALSE, MaxSamples)

\* a save in which every write succeeds, with the random draws of one run
\* (split "train", one uuid prefix)
SaveDoneHealthy ==
    /\ SaveDone
    /\ last_save'.img = "ok" /\ last_save'.lbl = "ok" /\ last_save'.inserted
    /\ catalog'[Len(catalog')].split = "train"
    /\ catalog'[Len(catalog')].id[3] = 1

NextSampling ==
    \/ \E c \in Cams : AcquireTest(c)
    \/ Startup \/ Poll \/ SaveDoneHealthy
    \/ Tick

SpecSampling == InitSampling /\ [][NextSampling]_vars

\* results of up to two detections whose masks hold one or two regions
MultiResults ==
    UNION {[1..n -> [cls : {0, 1}, score : {95}, npoly : 1..2]] : n \in 0..2}

\* the detector returns such results
InferMulti == InferWith(MultiResults)

\* the simulator's configuration with a detector whose masks can hold several
\* regions and a healthy store, up to the end of the first iteration of the
\* collector's loop
InitRecord == InitWith([c \in Cams |-> "test"], FALSE, MaxSamples)

NextRecord ==
    \/ \E c \in Cams : AcquireTest(c)
    \/ StartCam \/ DetStart \/ LoopCheck \/ GfAcquire \/ GfCopy \/ GfRelease
    \/ ForHead \/ InferMulti \/ SaveDoneHealthy

SpecRecord == InitRecord /\ [][NextRecord]_vars

\* a read that returns a frame unlike every frame the camera delivered before
ReadOkNew(c) == ReadOk(c) /\ frame'[c].px > latest_frame[c].px

\* two real cameras whose sources can fail and whose frames are all different,
\* a detector that finds objects and a healthy store, with time passing
InitStale == InitConfig("rpi", [c \in Cams |-> "rtsp"], FALSE, MaxSamples, FALSE)

NextStale ==
    \/ \E c \in Cams : \/ OpenFirst(c) \/ LoopHead(c) \/ ReadOkNew(c) \/ ReadFail(c)
                        \/ SleepDone(c) \/ Reopen(c) \/ AcqLock(c) \/ Store(c)
    \/ Startup \/ Poll \/ SaveDoneHealthy
    \/ Tick

SpecStale == InitStale /\ [][NextStale]_vars

\* both collectors over two "test" cameras with motion detection enabled and
\* a detector that finds nothing
InitMotion == \E p \in {"jetson", "rpi"} :
                 InitConfig(p, [c \in Cams |-> "test"], TRUE, 0, FALSE)

NextMotion ==
    \/ \E c \in Cams : AcquireTest(c)
    \/ Startup \/ Poll \/ InferRaise \/ Cleanup
    \/ Shutdown

SpecMotion == InitMotion /\ [][NextMotion]_vars

\* CameraManager.check_motion called directly for frames of any content, in
\* either package, with motion detection enabled or disabled
InitGate == \E p \in {"jetson", "rpi"}, m \in BOOLEAN :
               InitConfig(p, [c \in Cams |-> "test"], m, 0, FALSE)

NextGate == \E c \in Cams : GateCall(c)

SpecGate == InitGate /\ [][NextGate]_vars

\* the detection filter of run() applied to any result of the detector
InitFilter == InitWith([c \in Cams |-> "test"], FALSE, 0)

NextFilter == DrawResults \/ FilterResults

SpecFilter == InitFilter /\ [][NextFilter]_vars

\* the quotients a caller of format_yolo_label passes: thirds, 0 to 1
Coords == {[num |-> n, den |-> 3] : n \in 0..3}

\* the polygons it passes: lists of up to MaxPoints points
Polys == UNION {[1..(2 * n) -> Coords] : n \in 1..MaxPoints}

\* the lists of up to MaxPolys polygons, the empty list included
PolygonLists == UNION {[1..n -> Polys] : n \in 0..MaxPolys}

\* a caller picks a class id and a list of polygons
DrawPolygons ==
    /\ pc = "start_all"
    /\ polygons = NotCalled /\ label_lines = NoLines
    /\ polygons' \in PolygonLists
    /\ label_class' \in ClassIds
    /\ UNCHANGED <<mask, contours, label_lines, resolvevars, apivars>>
    /\ UNCHANGED <<camvars, colvars, envvars>>
    /\ UNCHANGED <<images, labels, catalog, last_save, budget, wpc, wcall, inits, dirs>>

\* the caller calls format_yolo_label(class_id, polygons)
FormatYoloLabelCall ==
    /\ pc = "start_all"
    /\ polygons # NotCalled /\ label_lines = NoLines
    /\ label_lines' = FormatYoloLabel(label_class, polygons)
    /\ UNCHANGED <<mask, contours, polygons, label_class, resolvevars, apivars>>
    /\ UNCHANGED <<camvars, colvars, envvars>>
    /\ UNCHANGED <<images, labels, catalog, last_save, budget, wpc, wcall, inits, dirs>>

\* a caller of format_yolo_label, nothing else running
InitLabel == InitWith([c \in Cams |-> "test"], FALSE, 0)

NextLabel == DrawPolygons \/ FormatYoloLabelCall

SpecLabel == InitLabel /\ [][NextLabel]_vars

\* the task ids of one camera, in the order start() makes them
TaskIds == 1..MaxStarts

\* a start() that does not look at the running flag
AlreadyRunningNever(c) == FALSE

\* if self.running: return
AlreadyRunning(c) == running[c]

\* a join() that returns without waiting
ThreadJoinedAtOnce(c) == TRUE

\* self.thread.join() can return: the task made last has exited
ThreadJoined(c) == handle[c] \notin tasks[c]

\* CameraStream.start() called by the control thread
ApiStart(c) ==
    /\ pc = "start_all"
    /\ ctl.op # "join"
    /\ IF AlreadyRunning(c)
       THEN /\ ctl' = [op |-> "start", cam |-> c, made |-> FALSE]
            /\ UNCHANGED <<running, tasks, handle>>
       ELSE /\ handle[c] < MaxStarts
            /\ running' = [running EXCEPT ![c] = TRUE]
            /\ handle' = [handle EXCEPT ![c] = @ + 1]
            /\ tasks' = [tasks EXCEPT ![c] = @ \cup {handle[c] + 1}]
            /\ ctl' = [op |-> "start", cam |-> c, made |-> TRUE]
    /\ UNCHANGED <<thread, lock, latest_frame, connected, reconnect_interval,
                   acqpc, cap, frame, handles, wait>>
    /\ UNCHANGED <<colvars, envvars>>
    /\ UNCHANGED <<images, labels, catalog, last_save, budget, wpc, wcall, inits, dirs>>
    /\ UNCHANGED <<mask, contours, polygons, label_class, label_lines, resolvevars>>

\* CameraStream.stop() called by the control thread, up to the join
ApiStop(c) ==
    /\ pc = "start_all"
    /\ ctl.op # "join"
    /\ running' = [running EXCEPT ![c] = FALSE]
    /\ ctl' = [op |-> IF handle[c] # 0 THEN "join" ELSE "stop",
               cam |-> c, made |-> FALSE]
    /\ UNCHANGED <<tasks, handle>>
    /\ UNCHANGED <<thread, lock, latest_frame, connected, reconnect_interval,
                   acqpc, cap, frame, handles, wait>>
    /\ UNCHANGED <<colvars, envvars>>
    /\ UNCHANGED <<images, labels, catalog, last_save, budget, wpc, wcall, inits, dirs>>
    /\ UNCHANGED <<mask, contours, polygons, label_class, label_lines, resolvevars>>

\* self.thread.join() returns and stop() with it
ApiJoin ==
    /\ pc = "start_all"
    /\ ctl.op = "join"
    /\ ThreadJoined(ctl.cam)
    /\ ctl' = [ctl EXCEPT !.op = "stop"]
    /\ UNCHANGED <<tasks, handle>>
    /\ UNCHANGED <<camvars, colvars, envvars>>
    /\ UNCHANGED <<images, labels, catalog, last_save, budget, wpc, wcall, inits, dirs>>
    /\ UNCHANGED <<mask, contours, polygons, label_class, label_lines, resolvevars>>

\* task t of camera c finds self.running false at its loop test and returns
TaskExit(c, t) ==
    /\ pc = "start_all"
    /\ t \in tasks[c]
    /\ ~running[c]
    /\ tasks' = [tasks EXCEPT ![c] = @ \ {t}]
    /\ UNCHANGED <<handle, ctl>>
    /\ UNCHANGED <<camvars, colvars, envvars>>
    /\ UNCHANGED <<images, labels, catalog, last_save, budget, wpc, wcall, inits, dirs>>
    /\ UNCHANGED <<mask, contours, polygons, label_class, label_lines, resolvevars>>

\* one control thread that calls start() and stop() on the cameras in any
\* order, and the acquisition tasks it makes
InitControl == InitWith([c \in Cams |-> "test"], FALSE, 0)

NextControl ==
    \/ \E c \in Cams : ApiStart(c) \/ ApiStop(c)
    \/ ApiJoin
    \/ \E c \in Cams, t \in TaskIds : TaskExit(c, t)

SpecControl == InitControl /\ [][NextControl]_vars

\* the names a class map can hold
Names == {"person", "helmet"}

\* self.class_names: a list of up to MaxNames names, or a dict from some
\* class ids to names
ClassMaps ==
    {[kind |-> "list", names |-> f] :
        f \in UNION {[0..(n - 1) -> Names] : n \in 0..MaxNames}}
    \cup {[kind |-> "dict", names |-> f] :
        f \in UNION {[D -> Names] : D \in SUBSET ClassIds}}

\* len(self.class_names)
MapLen(m) == Cardinality(DOMAIN m.names)

\* self.class_names[cls]: IndexError is guarded by the callers, a dict
\* without the key raises KeyError
Subscript(m, cls) ==
    IF cls \in DOMAIN m.names THEN m.names[cls] ELSE "KeyError"

\* the class name the collector of package p computes for class id cls, or
\* the exception the expression raises
ResolveName(p, m, cls) ==
    IF p = "jetson"
    THEN IF m.kind = "dict"
         THEN (IF cls \in DOMAIN m.names THEN m.names[cls] ELSE ToString(cls))
         ELSE IF cls < MapLen(m) THEN Subscript(m, cls) ELSE ToString(cls)
    ELSE IF cls < MapLen(m) THEN Subscript(m, cls) ELSE ToString(cls)

\* the configuration is loaded and a detection arrives
DrawClassMap ==
    /\ pc = "start_all"
    /\ class_name = ""
    /\ class_names' \in ClassMaps
    /\ cls_id' \in ClassIds
    /\ UNCHANGED class_name
    /\ UNCHANGED <<mask, contours, polygons, label_class, label_lines, apivars>>
    /\ UNCHANGED <<camvars, colvars, envvars>>
    /\ UNCHANGED <<images, labels, catalog, last_save, budget, wpc, wcall, inits, dirs>>

\* class_name = ... in the loop over the detections
ResolveCall ==
    /\ pc = "start_all"
    /\ class_name = ""
    /\ class_name' = ResolveName(platform, class_names, cls_id)
    /\ UNCHANGED <<class_names, cls_id>>
    /\ UNCHANGED <<mask, contours, polygons, label_class, label_lines, apivars>>
    /\ UNCHANGED <<camvars, colvars, envvars>>
    /\ UNCHANGED <<images, labels, catalog, last_save, budget, wpc, wcall, inits, dirs>>

\* the resolution of one class id in either package, nothing else running
InitResolve == \E p \in {"jetson", "rpi"} :
                  InitConfig(p, [c \in Cams |-> "test"], FALSE, 0, FALSE)

NextResolve == DrawClassMap \/ ResolveCall

SpecResolve == InitResolve /\ [][NextResolve]_vars

\* a caller of mask_to_polygon, nothing else running
InitPolygon == InitWith([c \in Cams |-> "test"], FALSE, 0)

NextPolygon == DrawMask \/ MaskToPolygonCall

SpecPolygon == InitPolygon /\ [][NextPolygon]_vars

\* two threads that call save_sample directly, one per camera id, within one
\* millisecond, over a store that may be constructed again; the collector is
\* not started
InitStore == \E e \in BOOLEAN :
                InitConfig("rpi", [c \in Cams |-> "test"], FALSE, 0, e)

NextStore ==
    \/ \E w \in Cams : Writer(w)
    \/ SetupStore

SpecStore == InitStore /\ [][NextStore]_vars

\* ================================================================== claims
InCleanup == pc \in {"stop", "join", "det_stop", "returned"}

\* C1: when get_frame() is about to return, its value is None exactly if the
\* mailbox has never been written, and otherwise a whole frame with the pixels
\* of the mailbox, i.e. of the last completed write; the mailbox never goes
\* back to None.
C1_SnapshotIsLatest ==
    /\ pc = "gf_unlock" =>
         /\ (ret = NoFrame) = (latest_frame[Cur] = NoFrame)
         /\ ret.px = latest_frame[Cur].px
    /\ \A c \in Cams : latest_frame[c] # NoFrame => latest_frame[c].px \in Pixels
    /\ \A c \in Cams : thread[c] = "none" => latest_frame[c] = NoFrame

\* get_frame() holds a copy while the acquisition thread waits to write
C1_Witness ==
    /\ pc = "gf_unlock"
    /\ ret # NoFrame
    /\ acqpc[Cur] \in {"lock", "t_lock"}
    /\ frame[Cur].px # ret.px

\* C2: an array the collector holds (get_frame's return value, an entry of the
\* frames dict) was allocated by get_frame's own copy, and no mailbox and no
\* local of an acquisition thread refers to an array of that allocation.
C2_PrivateCopy ==
    /\ \A c \in Cams : frames[c] # NoFrame => frames[c].by = "get_frame"
    /\ ret # NoFrame => ret.by = "get_frame"
    /\ \A c \in Cams : latest_frame[c].by # "get_frame" /\ frame[c].by # "get_frame"

\* both kinds of source have overwritten their mailbox after handing a frame out
C2_Witness ==
    \A c \in Cams : /\ frames[c] # NoFrame
                    /\ latest_frame[c].px # frames[c].px

\* C3: a camera's lock is held by the acquisition thread only in the
\* statements that write the mailbox and by the collector only in get_frame's
\* copy of that camera; so nobody holds it in a device read, a wait, a
\* detector call, a save or the poll sleep, and whoever waits for it waits for
\* a holder that is inside the copy or the write.
C3_LockOnlyAroundMailbox ==
    \A c \in Cams :
        /\ lock[c] = "acq" => acqpc[c] \in {"store", "t_store", "t_conn"}
        /\ lock[c] = "col" => pc \in {"gf_copy", "gf_unlock"} /\ Cur = c
        /\ acqpc[c] \in {"store", "t_store", "t_conn"} => lock[c] = "acq"
        /\ (pc \in {"gf_copy", "gf_unlock"} /\ Cur = c) => lock[c] = "col"

\* the acquisition thread waits for the lock while get_frame copies
C3_Witness ==
    \E c \in Cams : acqpc[c] \in {"lock", "t_lock"} /\ lock[c] = "col"

\* C4: once stop() has returned for a started camera, its running flag is
\* down and its acquisition thread has exited, no step changes its mailbox any
\* more, and a stop() that is waiting in join() does return (fair scheduling:
\* the device read or the reconnect wait in flight completes).
C4_StopWaitsForThread ==
    /\ [](\A c \in Cams : stopped[c] => ~running[c] /\ thread[c] # "alive")
    /\ [][\A c \in Cams : stopped[c] => latest_frame'[c] = latest_frame[c]]_vars
    /\ \A i \in 1..NCams : (pc = "join" /\ idx = i) ~> stopped[CamOrder[i]]

\* stop() has returned for every camera, each of which had written its mailbox
C4_Witness ==
    \A c \in Cams : stopped[c] /\ thread[c] = "exited" /\ latest_frame[c] # NoFrame

\* C5: after a failed read the camera is not connected and holds no capture
\* handle during the wait and when the next VideoCapture is attempted; a
\* camera never has two handles open.
C5_ReleaseBeforeReopen ==
    \A c \in Cams :
        /\ handles[c] <= 1
        /\ acqpc[c] \in {"sleep", "open"} =>
             handles[c] = 0 /\ cap[c] # "open" /\ ~connected[c]

\* a camera that had delivered frames lost its source and is opening it again
C5_Witness ==
    \E c \in Cams : acqpc[c] = "open" /\ latest_frame[c] # NoFrame /\ running[c]

\* C6: the reconnect interval stays 5; every wait lasts that long and every
\* attempt but the first follows such a wait; a running camera whose source is
\* not open goes to the next wait, and a wait leads to another attempt; the
\* thread exits only with the running flag down.
C6_FixedIntervalRetry ==
    /\ [](\A c \in Cams :
            /\ reconnect_interval[c] = ReconnectInterval
            /\ acqpc[c] \in {"sleep", "open"} => wait[c] = ReconnectInterval
            /\ thread[c] = "exited" => ~running[c])
    /\ [][\A c \in Cams :
            /\ (acqpc'[c] = "open" /\ acqpc[c] # "open") => acqpc[c] = "sleep"
            /\ (acqpc[c] = "loop" /\ running[c] /\ cap[c] # "open"
                /\ acqpc'[c] # "loop") => acqpc'[c] = "sleep"]_vars
    /\ \A c \in Cams : (acqpc[c] = "sleep") ~> (acqpc[c] = "open")

\* a camera that has never connected is in its wait again after a failed retry
C6_Witness ==
    \E c \in Cams : /\ acqpc[c] = "sleep" /\ running[c]
                    /\ latest_frame[c] = NoFrame /\ ~connected[c]
                    /\ wait[c] = ReconnectInterval

\* C7: a "test" camera never opens a capture and never waits to reconnect;
\* outside its own critical section its connected flag is up exactly if its
\* mailbox is set; both are set before its first sleep; once connected it is
\* never reported disconnected.
C7_TestSource ==
    /\ [](\A c \in Cams : url[c] = "test" =>
            /\ cap[c] = "none" /\ handles[c] = 0 /\ wait[c] = 0
            /\ acqpc[c] \in {"idle", "t_loop", "t_lock", "t_store", "t_conn",
                             "t_sleep", "done"}
            /\ lock[c] # "acq" => (connected[c] = (latest_frame[c] # NoFrame))
            /\ acqpc[c] = "t_sleep" => connected[c] /\ latest_frame[c] # NoFrame)
    /\ [][\A c \in Cams : (url[c] = "test" /\ connected[c]) => connected'[c]]_vars

\* the "test" camera is in its first sleeps, connected, with a frame
C7_Witness ==
    \E c \in Cams : /\ url[c] = "test" /\ acqpc[c] = "t_sleep" /\ running[c]
                    /\ connected[c] /\ latest_frame[c] # NoFrame

\* C8: an iteration of the loop starts only with the shutdown flag not set;
\* the detector is stopped only after stop() has returned for every camera,
\* and run() returns only after both; once the flag is set or an exception
\* was caught, run() does return (fair scheduling).
C8_ShutdownCleansUp ==
    /\ [][(pc = "loop" /\ pc' = "gf_lock") => col_running]_vars
    /\ [](det_stopped => \A c \in Cams : stopped[c] /\ thread[c] = "exited")
    /\ [](pc = "returned" => det_stopped /\ ~det_running)
    /\ (~col_running \/ raised # "") ~> (pc = "returned")

\* run() has returned after an exception, with the shutdown flag never set
C8_Witness ==
    /\ pc = "returned" /\ raised # "" /\ col_running
    /\ \A c \in Cams : thread[c] = "exited"

ImagePaths == {f.path : f \in images}
LabelPaths == {f.path : f \in labels}

\* C9: a failure while one camera's frame is processed never ends the loop:
\* the collector leaves the loop for cleanup() only with the shutdown flag set,
\* and the step in which the detector or the save fails goes on with the next
\* camera of the iteration.
C9_FailureIsolated ==
    /\ [](InCleanup => ~col_running)
    /\ [][(pc \in {"infer", "save"} /\ pc' # pc) =>
            (pc' \in {"for", "save"} /\ idx' >= idx)]_vars

\* C10: every catalog row has its image file and its label file on disk, and
\* a save_sample call in which the image write or the label write failed has
\* raised to its caller and inserted no row.
C10_RowOnlyAfterBothWrites ==
    /\ \A i \in 1..Len(catalog) :
         /\ catalog[i].image_path \in ImagePaths
         /\ catalog[i].label_path \in LabelPaths
    /\ (last_save.img \in {"false", "raise"} \/ last_save.lbl = "raise") =>
         (last_save.signal = "raise" /\ ~last_save.inserted)

\* C11: every catalog row has an image file at its image_path (files are
\* never deleted, so a file that is missing now was missing at the insert),
\* and a label file at its label_path exactly if objects_count > 0 or
\* save_empty is configured.
C11_RowHasFiles ==
    \A i \in 1..Len(catalog) :
        /\ catalog[i].image_path \in ImagePaths
        /\ (catalog[i].label_path \in LabelPaths) <=>
             (catalog[i].objects_count > 0 \/ save_empty)

\* C12: a save_sample call with an empty annotation list while save_empty is
\* not configured returns at once and leaves every image file, label file and
\* catalog row as it was; no call with an empty list gets past the early return.
C12_EmptySaveIsNoOp ==
    /\ [][\A w \in Cams :
            (wcall'[w].calls > wcall[w].calls /\ ~save_empty
             /\ wcall'[w].annotations = <<>>)
            => /\ wpc'[w] = "idle" /\ wcall'[w].res = "noop"
               /\ images' = images /\ labels' = labels /\ catalog' = catalog]_vars
    /\ [](\A w \in Cams : (wpc[w] # "idle" /\ ~save_empty) =>
                             wcall[w].annotations # <<>>)

\* a no-op call has returned over a store that holds a sample
C12_Witness ==
    /\ ~save_empty
    /\ \E w \in Cams : wcall[w].res = "noop" /\ wpc[w] = "idle"
    /\ Len(catalog) = 1 /\ Cardinality(images) = 1 /\ Cardinality(labels) = 1

\* C13: no two rows of the catalog share an id; an INSERT fails on the
\* primary key only against a row of the same camera; two calls for
\* different cameras that have both passed log_to_db without a failure have
\* each their own row.
C13_DistinctIds ==
    /\ \A i, j \in 1..Len(catalog) : i # j => catalog[i].id # catalog[j].id
    /\ \A w \in Cams : wcall[w].res = "unique" => wcall[w].clash = w
    /\ \A w \in Cams : (wpc[w] = "w_ret" /\ wcall[w].res = "ok") =>
         \E i \in 1..Len(catalog) : /\ catalog[i].id = CallRow(w).id
                                    /\ catalog[i].camera_id = w

\* two calls in flight at once, for two cameras, with the same timestamp and
\* the same uuid prefix, have both inserted their row
C13_Witness ==
    /\ \A w \in Cams : wpc[w] = "w_ret" /\ wcall[w].res = "ok"
    /\ \A v, w \in Cams : /\ wcall[v].timestamp = wcall[w].timestamp
                          /\ wcall[v].uuid = wcall[w].uuid
    /\ Len(catalog) = NCams

\* C14: a step never changes or removes a row that is in the catalog: rows
\* are only appended, whatever save_sample call, failed INSERT or
\* re-initialisation of the store the step belongs to.
C14_RowsNeverChange ==
    [][\A i \in 1..Len(catalog) :
         Len(catalog') >= i /\ catalog'[i] = catalog[i]]_vars

\* an INSERT has just failed on the primary key of an existing row, over a
\* store that was constructed a second time
C14_Witness ==
    /\ inits = MaxInits
    /\ Len(catalog) = 1
    /\ \E w \in Cams : /\ wpc[w] = "w_ret" /\ wcall[w].res = "unique"
                       /\ catalog[1].id = CallRow(w).id
                       /\ catalog[1].split # wcall[w].split

\* C15: a camera whose frame is polled less than CaptureInterval after its
\* last sample is skipped by the collector's next step: no motion check, no
\* detector call, no save; a sample is saved only from a poll at least CaptureInterval after
\* the poll of the camera's previous sample; a camera without a sample is
\* not skipped.
C15_Throttle ==
    [][/\ (pc = "for" /\ idx <= NCams /\ frames[Cur] # NoFrame
           /\ current_time - last_capture_times[Cur] < CaptureInterval
           /\ <<pc, idx>>' # <<pc, idx>>)
          => /\ pc' = "for" /\ idx' = idx + 1 /\ gate' = NoGate
             /\ prev_frame' = prev_frame /\ budget' = budget
             /\ catalog' = catalog /\ images' = images /\ labels' = labels
             /\ last_capture_times' = last_capture_times
       /\ (pc = "save" /\ pc' = "for")
          => /\ current_time - last_capture_times[Cur] >= CaptureInterval
             /\ last_capture_times'[Cur] = current_time
       /\ (pc = "for" /\ idx <= NCams /\ frames[Cur] # NoFrame
           /\ last_capture_times[Cur] = 0 /\ pc' # pc)
          => pc' = "infer"]_vars

\* one camera has two samples, and its next frame is polled too early
C15_Witness ==
    /\ \E c \in Cams :
         /\ Cardinality({i \in 1..Len(catalog) : catalog[i].camera_id = c}) = 2
         /\ pc = "for" /\ idx <= NCams /\ Cur = c /\ frames[c] # NoFrame
         /\ current_time - last_capture_times[c] < CaptureInterval

\* C16: a step changes a camera's last capture time only if the save_sample
\* call of that step wrote the image, wrote the label file and inserted the
\* catalog row.
C16_TimeOnlyAfterSuccess ==
    [][last_capture_times' # last_capture_times =>
         /\ last_save'.img = "ok" /\ last_save'.lbl = "ok"
         /\ last_save'.inserted]_vars

\* C17: whenever a frame is at the detector, the last check_motion call was
\* made in this iteration for this camera and this frame and answered True;
\* after an answer False the frame is neither at the detector nor saved.
C17_GateBeforeDetector ==
    /\ pc = "infer" => gate = [cam |-> Cur, px |-> frames[Cur].px, ans |-> TRUE]
    /\ (gate.cam # "none" /\ ~gate.ans) => pc \notin {"infer", "save"}

C19_Passing ==
    {j \in 1..Len(results) :
        /\ results[j].score >= MinConfidence
        /\ (TargetClasses = {} \/ Resolve(results[j].cls) \in TargetClasses)
        /\ results[j].npoly > 0}

RECURSIVE C19_Lines(_)
C19_Lines(j) == IF j = 0 THEN 0
                ELSE (IF j \in C19_Passing THEN results[j].npoly ELSE 0)
                     + C19_Lines(j - 1)

\* C19: once the filter has run over a result, every label line carries the
\* class id, and every class name is the name, of a detection of that result
\* with score >= MinConfidence, a class in the allow-list and a polygon; there
\* are as many class names as such detections and as many lines as they have
\* polygons, so the other detections contribute nothing.
C19_OnlyPassingDetections ==
    (yolo_annotations # <<>> \/ classes_detected # <<>>) =>
        /\ \A k \in 1..Len(yolo_annotations) :
             \E j \in C19_Passing : yolo_annotations[k][1] = results[j].cls
        /\ \A k \in 1..Len(classes_detected) :
             \E j \in C19_Passing : classes_detected[k] = Resolve(results[j].cls)
        /\ Len(classes_detected) = Cardinality(C19_Passing)
        /\ Len(yolo_annotations) = C19_Lines(Len(results))

\* a result of two detections of which only the second passes
C19_Witness ==
    /\ Len(results) = 2
    /\ C19_Passing = {2}
    /\ results[1].score < MinConfidence
    /\ Len(yolo_annotations) = 1 /\ Len(classes_detected) = 1

\* C20: with motion detection disabled, check_motion answers True for every
\* frame, the all-black one included, in every state any earlier calls have
\* led to, and no call changes the state of a motion detector.
C20_DisabledGateAllowsAll ==
    ~motion_enabled =>
        /\ \A c \in Cams : \A f \in CallFrames : GateAnswers(c, f) = {TRUE}
        /\ gate.cam # "none" => gate.ans
        /\ \A c \in Cams : prev_frame[c] = NoRef

\* the disabled gate has answered for an all-black frame
C20_Witness ==
    /\ ~motion_enabled
    /\ gate.cam # "none" /\ gate.px = Black.px /\ gate.ans

\* C21: with the frame-differencing gate enabled, the first check_motion call
\* on a camera (nothing stored yet) answers True whatever the frame is, and
\* the gray level of that frame becomes the stored reference
C21_FirstCallAllows ==
    [][\A c \in Cams :
         (platform = "rpi" /\ motion_enabled /\ prev_frame[c] = NoRef
            /\ (gate'.cam = c) /\ <<gate, prev_frame>>' # <<gate, prev_frame>>)
         => /\ gate'.ans
            /\ prev_frame'[c] = 20 * gate'.px]_vars

\* the second call on a camera has been answered False against the reference
\* the first call stored
C21_Witness ==
    /\ platform = "rpi" /\ motion_enabled
    /\ gate.cam = "c1" /\ ~gate.ans /\ gate.px = 0
    /\ prev_frame["c1"] = 0 /\ prev_frame["c2"] = NoRef

\* C22: every call of an enabled motion gate leaves the frame of that call
\* as the stored state, whatever it answers; the frame-differencing gate
\* answers the next call on the same camera against the frame of the call
\* just before it
C22_EveryCallUpdates ==
    /\ [](motion_enabled /\ gate.cam # "none"
            => prev_frame[gate.cam] = 20 * gate.px)
    /\ [][(platform = "rpi" /\ motion_enabled /\ gate.cam # "none"
            /\ gate'.cam = gate.cam /\ gate' # gate)
           => gate'.ans = (AbsDiff(20 * gate.px, 20 * gate'.px) > MotionThreshold)]_vars

\* a call answered False whose frame differs from the reference it was
\* compared with, and is now the reference
C22_Witness ==
    /\ platform = "rpi" /\ motion_enabled
    /\ gate.cam = "c1" /\ ~gate.ans /\ gate.px = 1
    /\ prev_frame["c1"] = 20

\* C23: the state of a camera's motion gate is read and written only by the
\* collector's thread: a step that changes it is the collector's step at the
\* head of its per-camera loop, for the camera it is at, and no acquisition
\* task moves in that step; one collector position means one check at a time
C23_GateOnCollectorThread ==
    [][prev_frame' # prev_frame
         => /\ pc = "for" /\ idx <= NCams
            /\ camvars' = camvars
            /\ \A c \in Cams : prev_frame'[c] # prev_frame[c] => c = Cur
            /\ gate'.cam = Cur]_vars

\* the gate of a camera has been asked while that camera's acquisition task
\* was in the middle of storing a frame
C23_Witness ==
    /\ platform = "jetson" /\ motion_enabled
    /\ pc = "infer" /\ gate.cam = Cur /\ prev_frame[Cur] # NoRef
    /\ acqpc[Cur] = "t_store"

\* C24: get_frames() gives entries for connected cameras only: whenever
\* get_frame() hands a frame of a camera to get_frames(), which stores it
\* under that camera's id, the camera's connected flag is up
C24_EntriesOnlyForConnected ==
    (pc = "gf_unlock" /\ ret # NoFrame) => connected[Cur]

\* the coordinates of all polygons of a mask_to_polygon result
Coordinates(ps) == UNION {{ps[i][k] : k \in 1..Len(ps[i])} : i \in 1..Len(ps)}

\* C25: for every binary mask of width and height at least 1, every
\* coordinate mask_to_polygon returns lies in [0, 1], and the all-zero mask
\* gives the empty list
C25_CoordinatesInUnitInterval ==
    polygons # NotCalled
    => /\ \A p \in Coordinates(polygons) :
             p.den >= 1 /\ 0 <= p.num /\ p.num <= p.den
       /\ mask.blobs = {} => polygons = <<>>

\* a mask that is wider than high, with a region reaching its last column
\* and last row and a speck filtered as noise
C25_Witness ==
    /\ polygons # NotCalled /\ Len(polygons) = 1 /\ Len(contours) = 2
    /\ mask.w > mask.h
    /\ \E k \in 1..Len(polygons[1]) : polygons[1][k].num = mask.w - 1
    /\ \E k \in 1..Len(polygons[1]) :
          polygons[1][k].num = mask.h - 1 /\ polygons[1][k].den = mask.h

\* C26: format_yolo_label returns exactly one line per polygon, in the order
\* given; each line starts with the class id and goes on with that polygon's
\* coordinates, each written to the nearest millionth; the empty list of
\* polygons gives the empty list of lines
C26_OneLinePerPolygon ==
    label_lines # NoLines
    => /\ Len(label_lines) = Len(polygons)
       /\ \A i \in 1..Len(polygons) :
            /\ Len(label_lines[i]) = 1 + Len(polygons[i])
            /\ label_lines[i][1] = label_class
            /\ \A k \in 1..Len(polygons[i]) :
                 LET p == polygons[i][k]
                     d == label_lines[i][k + 1] * p.den - 1000000 * p.num
                 IN  2 * d <= p.den /\ 0 - 2 * d <= p.den

\* two polygons of different lengths and different coordinates have been
\* formatted for a class other than 0
C26_Witness ==
    /\ label_lines # NoLines /\ Len(label_lines) = 2 /\ label_class = 1
    /\ Len(label_lines[1]) = 5 /\ Len(label_lines[2]) = 3
    /\ label_lines[1][2] = 333333 /\ label_lines[2][2] = 666667

\* C27: the name a class id resolves to depends only on the assignments of the
\* class map, not on whether it is a list or a dict: an id the map holds gives
\* the name assigned to it, an id it does not hold gives the decimal string of
\* the id, and the resolution raises nothing
C27_UniformResolution ==
    class_name # ""
    => class_name = (IF cls_id \in DOMAIN class_names.names
                     THEN class_names.names[cls_id] ELSE ToString(cls_id))

\* C28: constructing DatasetWriter again over an initialised base path
\* succeeds and changes nothing: the four split directories are there before
\* and after, no image file, label file or catalog row changes, and the
\* layout is the one a single construction leaves
C28_InitIdempotent ==
    /\ [](SplitDirs \subseteq dirs /\ dirs = EnsureDirectories({}, SplitDirs))
    /\ [][inits' # inits
           => /\ inits' = inits + 1
              /\ <<dirs, images, labels, catalog>>' = <<dirs, images, labels, catalog>>]_vars
    /\ [](inits < MaxInits => ENABLED SetupStore)

\* the store has been constructed again over a base path that held an
\* image, a label file and a row
C28_Witness ==
    /\ inits = 2
    /\ last_save = NoSave
    /\ Len(catalog) = 1 /\ Cardinality(images) = 1 /\ Cardinality(labels) = 1
    /\ \A w \in Cams : wpc[w] = "idle"

\* C29: the throttle is kept per camera: a step that changes a last-sample
\* time is the save of the collector's current camera and changes that
\* camera's time only, and whether a camera's frame is skipped depends on
\* that camera's own last-sample time only
C29_ThrottlePerCamera ==
    [][/\ last_capture_times' # last_capture_times
          => /\ pc = "save"
             /\ last_capture_times'[Cur] = current_time
             /\ \A c \in Cams \ {Cur} :
                  last_capture_times'[c] = last_capture_times[c]
       /\ (pc = "for" /\ idx <= NCams /\ frames[Cur] # NoFrame
           /\ <<pc, idx>>' # <<pc, idx>>)
          => ((pc' = "for" /\ idx' = idx + 1)
                <=> current_time - last_capture_times[Cur] < CaptureInterval)]_vars

\* in the iteration in which the first camera's sample was saved, the second
\* camera, which has none yet, passes the throttle
C29_Witness ==
    /\ pc = "infer" /\ idx = 2
    /\ last_capture_times[CamOrder[1]] = current_time
    /\ last_capture_times[CamOrder[2]] = 0
    /\ Len(catalog) = 1

\* C30: whatever start() and stop() calls the control thread makes, a camera
\* never has two live acquisition tasks; start() on a running camera makes no
\* task, and start() on a camera that is not running (never started, or
\* stopped by a stop() that has returned) makes exactly one, with no older
\* task of that camera alive
C30_OneTaskPerCamera ==
    /\ [](\A c \in Cams : Cardinality(tasks[c]) <= 1)
    /\ [][(ctl'.op = "start" /\ <<ctl, tasks>>' # <<ctl, tasks>>)
           => IF running[ctl'.cam]
              THEN tasks' = tasks /\ ~ctl'.made
              ELSE /\ ctl'.made
                   /\ tasks[ctl'.cam] = {}
                   /\ Cardinality(tasks'[ctl'.cam]) = 1
                   /\ \A c \in Cams \ {ctl'.cam} : tasks'[c] = tasks[c]]_vars

\* a camera was started, stopped and started again: its second task is the
\* only one alive
C30_Witness ==
    /\ ctl = [op |-> "start", cam |-> "c1", made |-> TRUE]
    /\ handle["c1"] = 2 /\ tasks["c1"] = {2} /\ running["c1"]

\* C31: a camera has at most one capture handle open, and it is the one its
\* acquisition task holds, whatever opens and reads failed before; when the
\* task has exited, and so when stop() has returned, no handle is open
C31_OneHandleReleasedAtExit ==
    \A c \in Cams :
        /\ handles[c] <= 1
        /\ (handles[c] = 1) = (cap[c] = "open")
        /\ (thread[c] = "exited" \/ stopped[c]) => handles[c] = 0

\* stop() has returned for a camera whose task held an open source, with
\* frames delivered, when it found the flag down
C31_Witness ==
    \E c \in Cams : /\ url[c] # "test" /\ stopped[c] /\ thread[c] = "exited"
                    /\ connected[c] /\ latest_frame[c] # NoFrame
                    /\ wait[c] = 0 /\ cap[c] = "closed"

\* C32: a running camera that is disconnected and waiting to retry, and whose
\* source is available from then on, is connected again later with a frame
\* read over the new capture in its mailbox, unless it is stopped first
C32_ReconnectRecovers ==
    \A c \in Cams :
        (running[c] /\ ~connected[c] /\ acqpc[c] \in {"sleep", "open"})
        ~> \/ /\ connected[c] /\ acqpc[c] = "loop" /\ cap[c] = "open"
              /\ latest_frame[c].by = "_update"
           \/ ~running[c]

\* a running camera that had delivered frames has lost its source and waits
\* to retry, with no shutdown requested
C32_Witness ==
    \E c \in Cams : /\ running[c] /\ ~connected[c] /\ acqpc[c] = "sleep"
                    /\ latest_frame[c].by = "_update" /\ col_running
                    /\ pc = "gf_lock"

\* C33: the snapshot of a camera that is at the detector or at the save stays
\* what it was when the motion gate was asked, whatever the acquisition task
\* writes to the mailbox meanwhile; the image a save writes holds that
\* snapshot, and the label file written with it holds the lines made from
\* the detector's result for it
C33_SavedImageIsSnapshot ==
    [][/\ (pc \in {"infer", "save"} /\ pc' \in {"infer", "save"})
          => /\ idx' = idx /\ frames'[Cur] = frames[Cur]
             /\ gate' = gate /\ gate.cam = Cur /\ gate.px = frames[Cur].px
       /\ (pc = "save" /\ images' # images)
          => /\ \A f \in images' \ images :
                  f.px = frames[Cur].px /\ f.px = gate.px
             /\ gate.cam = Cur
             /\ yolo_annotations = Annotations(results)
             /\ \A l \in labels' \ labels : l.lines = yolo_annotations]_vars

\* a sample was saved whose image holds the frame the gate was asked about,
\* while the camera's mailbox holds a later frame
C33_Witness ==
    /\ last_save.img = "ok" /\ last_save.lbl = "ok" /\ Len(catalog) = 1
    /\ gate.cam # "none"
    /\ \E f \in images : /\ f.path = catalog[1].image_path
                          /\ f.px = gate.px
                          /\ latest_frame[gate.cam].px # gate.px

\* the content of the image file of catalog row i
ImageOf(i) == {f.px : f \in {g \in images : g.path = catalog[i].image_path}}

\* C34: a frame written to a camera's mailbox is saved as a sample at most
\* once: with a source whose frames are all different, two rows of the same
\* camera never have images with the same content
C34_SavedAtMostOnce ==
    \A i, j \in 1..Len(catalog) :
        (i < j /\ catalog[i].camera_id = catalog[j].camera_id)
        => ImageOf(i) \cap ImageOf(j) = {}
\* C35: in every catalog row the split column agrees with both paths: the
\* image path is <images_dir>/<split>/<id>.jpg and the label path is
\* <labels_dir>/<split>/<id>.txt, with the row's own split and id
C35_SplitAgreesWithPaths ==
    \A i \in 1..Len(catalog) :
        /\ catalog[i].image_path = <<"images", catalog[i].split, catalog[i].id, "jpg">>
        /\ catalog[i].label_path = <<"labels", catalog[i].split, catalog[i].id, "txt">>

\* a row of the val split is in the catalog, and files exist at both of its
\* paths
C35_Witness ==
    \E i \in 1..Len(catalog) :
        /\ catalog[i].split = "val"
        /\ catalog[i].image_path \in {f.path : f \in images}
        /\ catalog[i].label_path \in {f.path : f \in labels}

\* the lines of the label file of catalog row i
LinesOf(cat, files, i) == {f.lines : f \in {g \in files : g.path = cat[i].label_path}}

\* the detections of the current results that pass the filter
Surviving == SelectSeq(results, Keeps)

\* C36: in every catalog row objects_count is the number of lines of the
\* row's label file, one line per polygon, and the classes column of a row
\* that is inserted holds the class name of each surviving detection of the
\* frame's results, in the order of the detections
C36_CountAndClassesMatch ==
    [][/\ \A i \in 1..Len(catalog') :
            \A l \in LinesOf(catalog', labels', i) : catalog'[i].objects_count = Len(l)
       /\ Len(catalog') > Len(catalog) =>
            LET row == catalog'[Len(catalog')]
            IN /\ LinesOf(catalog', labels', Len(catalog')) # {}
               /\ row.classes = [k \in 1..Len(Surviving) |-> Resolve(Surviving[k].cls)]
               /\ row.objects_count =
                     Len(Joined([k \in 1..Len(Surviving) |-> DetPolygons(Surviving[k])]))
      ]_vars

\* a row of three label lines and two class names is in the catalog: its
\* frame had a detection of two polygons and a detection of one
C36_Witness ==
    \E i \in 1..Len(catalog) :
        /\ catalog[i].objects_count = 3
        /\ Len(catalog[i].classes) = 2
        /\ \E l \in LinesOf(catalog, labels, i) : Len(l) = 3

\* C37: a camera's connected flag is true only while its acquisition task is
\* alive and holds an open source or is the running test source; so it is
\* false before start(), during every reconnect wait and after stop() has
\* returned
C37_ConnectedOnlyWhileAlive ==
    \A c \in Cams :
        connected[c] => /\ thread[c] = "alive"
                        /\ ~stopped[c]
                        /\ acqpc[c] \notin {"sleep", "open"}
                        /\ (url[c] = "test" \/ cap[c] = "open")

\* the collector is in the for loop over the snapshot of an iteration
InForLoop(p) == p \in {"for", "infer", "save"}

\* C38: once the shutdown flag is set the collector leaves the loop at its
\* next test, so it takes no snapshot of a further iteration; in the
\* iteration in progress it only moves forward over the cameras not yet
\* visited, each of which may still be inferred and saved; and once cleanup
\* has stopped a camera the collector is past its loop and no image, label
\* or catalog row is written any more
C38_NoSnapshotAfterShutdown ==
    /\ [][(~col_running /\ pc = "loop" /\ pc' # pc)
            => (pc' = "stop" /\ frames' = frames)]_vars
    /\ [][(~col_running /\ InForLoop(pc'))
            => (pc = "gf_unlock" \/ (InForLoop(pc) /\ idx' >= idx))]_vars
    /\ [][(\E c \in Cams : stopped[c])
            => (~InForLoop(pc') /\ UNCHANGED <<images, labels, catalog>>)]_vars

\* the shutdown flag is set and the last camera of the snapshot of the
\* iteration in progress, with surviving annotations, is about to be saved
C38_Witness ==
    /\ ~col_running /\ pc = "save" /\ idx = NCams
    /\ yolo_annotations # <<>>
    /\ \A c \in Cams : ~stopped[c]

====
